---- MODULE Spec2Model ----
(***************************************************************************)
(* Connected-components clustering of splink                               *)
(* (src/splink/internals/connected_components.py), modelled as the         *)
(* sequence of pipelines that solve_connected_components submits to the    *)
(* database API.  Every table is the set of its rows; every action is one  *)
(* pipeline submission together with the python statements around it.      *)
(*                                                                         *)
(* The estimation of u probabilities by random sampling                    *)
(* (src/splink/internals/estimate_u.py) is modelled the same way, and the  *)
(* configuration of a ComparisonCreator (src/splink/comparison_creator.py) *)
(* as one action per method call.  Each of the three programs has its own  *)
(* initial condition and next-state relation; the variables of the         *)
(* programs that do not run keep their idle values.                        *)
(***************************************************************************)
EXTENDS Integers, Sequences, FiniteSets, TLC

VARIABLES
    nodes_table,                 \* input: the node ids of the nodes table
    edges_table,                 \* input: rows (node_id_l, node_id_r, match_probability)
    threshold_match_weight,      \* input of cluster_pairwise_predictions_at_threshold
    threshold_match_probability, \* input of cluster_pairwise_predictions_at_threshold
    cc_threshold,                \* threshold_match_probability of solve_connected_components
    pc,                          \* position in the python control flow
    edges,                       \* __splink__edges
    neighbours,                  \* __splink__df_neighbours
    representatives,             \* the table most recently bound to `representatives`
    prev_representatives_table,
    representatives_stable,
    converged_repr_tables,       \* python list of the stable tables
    iteration,
    root_rows_count,
    submitted,                   \* output names of the pipelines submitted so far
    database,                    \* the materialised tables not dropped so far
    output,                      \* rows of __splink__clustering_output_final, in order
    error,                       \* message of the raised ValueError, or NoError
    run,                         \* 1 for the first call, 2 for its repetition
    first_output,                \* what the first call returned
    \* estimate_u_values
    linker_settings,             \* input: linker._settings_obj when the call is made
    sql_dialect,                 \* input: linker._sql_dialect
    frame_counts,                \* input: the row count of each source dataset
    max_pairs,                   \* input
    comparison_vector_counts,    \* input: per comparison and level, the sampled pairs in it
    u_pc,                        \* position in estimate_u_values
    heap,                        \* the settings objects, by reference
    settings_obj,                \* the reference that `settings_obj` holds
    total_nodes,
    sample_size,
    proportion,
    random_sample,               \* the arguments _random_sample_sql was called with
    param_records,
    u_raised,                    \* the exception that left estimate_u_values, or NoError
    \* ComparisonCreator
    comparison_levels,           \* input: is_null_level of each created level, in order
    m_probabilities,             \* the attribute _m_probabilities, Unset before it is set
    u_probabilities,             \* the attribute _u_probabilities, Unset before it is set
    configured_levels,           \* what get_configured_comparison_levels returned, in order
    creator_raised,              \* the exception of the last call, or NoError
    last_call,                   \* the last call made on the creator, with its arguments
    creator_calls,               \* number of calls made on the creator
    \* ForenameSurnameComparisonBase
    forename_surname_arguments,  \* input: the arguments of __init__, or None
    forename_surname_levels      \* comparison_levels of the comparison made, or None

clustering_state ==
    << nodes_table, edges_table, threshold_match_weight,
       threshold_match_probability, cc_threshold, pc, edges, neighbours, representatives,
       prev_representatives_table, representatives_stable,
       converged_repr_tables, iteration, root_rows_count, submitted,
       output, error, run, first_output >>

estimate_u_inputs ==
    << linker_settings, sql_dialect, frame_counts, max_pairs, comparison_vector_counts >>

estimate_u_vars ==
    << estimate_u_inputs, u_pc, heap, settings_obj, total_nodes, sample_size,
       proportion, random_sample, param_records, u_raised >>

creator_vars ==
    << comparison_levels, m_probabilities, u_probabilities, configured_levels,
       creator_raised, last_call, creator_calls >>

template_vars == << forename_surname_arguments, forename_surname_levels >>

vars == << clustering_state, database, estimate_u_vars, creator_vars, template_vars >>

----------------------------------------------------------------------------
(* Bounds of the model *)

MaxNode == 6
MaxEdges == 4

----------------------------------------------------------------------------
(* Values *)

\* python None for an optional threshold
None == << >>

\* SQL NULL in an id column (a left join that found no row); node ids are >= 1
NULL == 0

NoError == ""

\* SQL three-valued logic for the rep_match column
SqlTrue == "true"
SqlFalse == "false"
SqlNull == "null"

\* a match probability is the fraction num/den, kept exact
Prob(num, den) == << num, den >>

\* SQL `a >= b` on two probabilities
ProbGE(a, b) == a[1] * b[2] >= b[1] * a[2]

\* SQL min(): NULLs are ignored, and the minimum of no value is NULL
SqlMin(S) ==
    LET vals == S \ {NULL}
    IN  IF vals = {} THEN NULL
        ELSE CHOOSE m \in vals : \A x \in vals : m <= x

\* SQL `a <> b`: NULL when either side is NULL
SqlNotEqual(a, b) ==
    IF a = NULL \/ b = NULL THEN SqlNull
    ELSE IF a # b THEN SqlTrue ELSE SqlFalse

----------------------------------------------------------------------------
(* The queries, each as the table it returns *)

\* MatchProbExpr with `>` written for `>=`
MatchProbExprStrict(e, threshold) ==
    IF threshold = None THEN TRUE
    ELSE ~ProbGE(threshold, e.match_probability)

\* `where match_probability >= {threshold_match_probability}`, or no where
\* clause when the threshold is None
MatchProbExpr(e, threshold) ==
    IF threshold = None THEN TRUE
    ELSE ProbGE(e.match_probability, threshold)

\* __splink__edges: the edges that pass the threshold UNION a self-edge of
\* every node
EdgesQuery(nodesT, edgesT, threshold) ==
    { [node_id_l |-> e.node_id_l, node_id_r |-> e.node_id_r] :
          e \in {x \in edgesT : MatchProbExpr(x, threshold)} }
    \cup
    { [node_id_l |-> n, node_id_r |-> n] : n \in nodesT }

\* nodes: `select node_id from nodes_table`
NodesQuery(nodesT) == nodesT

\* NeighboursQuery without its second select: an edge makes its right id a
\* neighbour of its left id only
NeighboursQueryLeftOnly(nodes, edgesQ) ==
    UNION { LET e_l == {e \in edgesQ : e.node_id_l = n}
            IN  IF e_l = {}
                THEN { [node_id |-> n, neighbour |-> NULL] }
                ELSE { [node_id |-> n, neighbour |-> e.node_id_r] : e \in e_l }
            : n \in nodes }

\* NeighboursQuery that keeps only the other nodes, no self link
NeighboursQueryNoSelfLink(nodes, edgesQ) ==
    { [node_id |-> n, neighbour |-> m] :
          <<n, m>> \in { x \in nodes \X nodes :
                            /\ x[1] # x[2]
                            /\ \E e \in edgesQ :
                                   \/ e.node_id_l = x[1] /\ e.node_id_r = x[2]
                                   \/ e.node_id_r = x[1] /\ e.node_id_l = x[2] } }

\* __splink__df_neighbours: nodes left join edges on the left id, UNION
\* nodes left join edges on the right id (coalesced to the node itself)
NeighboursQuery(nodes, edgesQ) ==
    (UNION { LET e_l == {e \in edgesQ : e.node_id_l = n}
             IN  IF e_l = {}
                 THEN { [node_id |-> n, neighbour |-> NULL] }
                 ELSE { [node_id |-> n, neighbour |-> e.node_id_r] : e \in e_l }
             : n \in nodes })
    \cup
    (UNION { LET e_r == {e \in edgesQ : e.node_id_r = n}
             IN  IF e_r = {}
                 THEN { [node_id |-> n, neighbour |-> n] }
                 ELSE { [node_id |-> n, neighbour |-> e.node_id_l] : e \in e_r }
             : n \in nodes })

\* InitialRepresentativesQuery with max() written for min()
InitialRepresentativesQueryMax(neighboursT) ==
    { [node_id |-> n,
       representative |->
           LET vals == {nb.neighbour : nb \in {x \in neighboursT : x.node_id = n}}
           IN  CHOOSE m \in vals : \A x \in vals : x <= m] :
          n \in {nb.node_id : nb \in neighboursT} }

\* representatives: min(neighbour) group by node_id
InitialRepresentativesQuery(neighboursT) ==
    { [node_id |-> n,
       representative |->
           SqlMin({nb.neighbour : nb \in {x \in neighboursT : x.node_id = n}})] :
          n \in {nb.node_id : nb \in neighboursT} }

\* neighbours_first_iter: neighbours left join representatives on the
\* neighbour, min(representatives.representative) group by neighbours.node_id
NeighboursFirstIterQuery(neighboursT, reprT) ==
    { [node_id |-> n,
       representative |->
           SqlMin(UNION { LET m == {r \in reprT : r.node_id = nb.neighbour}
                          IN  IF m = {} THEN {NULL}
                              ELSE {r.representative : r \in m}
                          : nb \in {x \in neighboursT : x.node_id = n} })] :
          n \in {nb.node_id : nb \in neighboursT} }

\* __splink__df_representatives: neighbours_first_iter inner join
\* representatives on node_id, with rep_match
RepresentativesFirstIterQuery(firstIterT, reprT) ==
    UNION { { [node_id |-> n.node_id,
               representative |-> n.representative,
               rep_match |-> SqlNotEqual(n.representative, r.representative)] :
                  r \in {x \in reprT : x.node_id = n.node_id} }
            : n \in firstIterT }

\* RepresentativesLoopCondQuery without its second select: the rows whose
\* rep_match is false do not bring their own representative
RepresentativesLoopCondQueryJoinedOnly(neighboursT, prevT) ==
    LET joined ==
            UNION { { [node_id |-> nb.node_id,
                       representative |-> rn.representative] :
                          rn \in {x \in prevT : /\ x.node_id = nb.neighbour
                                                /\ x.rep_match = SqlTrue} }
                    : nb \in neighboursT }
    IN  { [node_id |-> n,
           representative |->
               SqlMin({s.representative : s \in {x \in joined : x.node_id = n}})] :
              n \in {s.node_id : s \in joined} }

\* r: for every node, the minimum over the representatives of its
\* neighbours whose rep_match is true and, when its own rep_match is false,
\* its own representative
RepresentativesLoopCondQuery(neighboursT, prevT) ==
    LET joined ==
            UNION { { [node_id |-> nb.node_id,
                       representative |-> rn.representative] :
                          rn \in {x \in prevT : /\ x.node_id = nb.neighbour
                                                /\ x.rep_match = SqlTrue} }
                    : nb \in neighboursT }
        settled ==
            { [node_id |-> p.node_id, representative |-> p.representative] :
                  p \in {x \in prevT : x.rep_match = SqlFalse} }
        all == joined \cup settled
    IN  { [node_id |-> n,
           representative |->
               SqlMin({s.representative : s \in {x \in all : x.node_id = n}})] :
              n \in {s.node_id : s \in all} }

\* __splink__df_representatives_<iteration>: r left join the previous
\* representatives on node_id, with rep_match
UpdateRepresentativesLoopCondQuery(rT, prevT) ==
    UNION { LET m == {p \in prevT : p.node_id = r.node_id}
            IN  IF m = {}
                THEN { [node_id |-> r.node_id,
                        representative |-> r.representative,
                        rep_match |-> SqlNull] }
                ELSE { [node_id |-> r.node_id,
                        representative |-> r.representative,
                        rep_match |->
                            SqlNotEqual(r.representative, p.representative)] :
                           p \in m }
            : r \in rT }

\* cluster_composition_current: per representative, the distinct node ids
\* of its group and the distinct neighbours of those nodes (list_distinct
\* drops NULLs)
ClusterCompositionQuery(reprT, neighboursT) ==
    { [representative |-> c,
       distinct_node_ids |->
           {r.node_id : r \in {x \in reprT : x.representative = c}} \ {NULL},
       distinct_neighbours |->
           (UNION { LET m == {nb \in neighboursT : nb.node_id = r.node_id}
                    IN  IF m = {} THEN {NULL} ELSE {nb.neighbour : nb \in m}
                    : r \in {x \in reprT : x.representative = c} }) \ {NULL}] :
          c \in {r.representative : r \in reprT} }

\* stable_clusters: the groups whose node ids are exactly their neighbours
StableClustersQuery(compositionT) ==
    { [representative |-> c.representative,
       distinct_node_ids |-> c.distinct_node_ids] :
          c \in {x \in compositionT :
                    x.distinct_node_ids = x.distinct_neighbours} }

\* __splink__representatives_stable: the rows of the stable groups
RepresentativesStableQuery(reprT, stableT) ==
    { r \in reprT : r.representative \in {c.representative : c \in stableT} }

\* RepresentativesThinnedQuery that leaves the stable rows in
RepresentativesThinnedQueryKeepsStable(reprT, reprStableT) == reprT

\* representatives_thinned: the rows whose representative is not in the
\* stable table
RepresentativesThinnedQuery(reprT, reprStableT) ==
    { r \in reprT :
          r.representative \notin {x.representative : x \in reprStableT} }

\* AssessExitConditionQuery counting the rows whose rep_match is false
AssessExitConditionQueryNegated(reprT) ==
    Cardinality({r \in reprT : r.rep_match = SqlFalse})

\* __splink__df_root_rows: count(*) where rep_match
AssessExitConditionQuery(reprT) ==
    Cardinality({r \in reprT : r.rep_match = SqlTrue})

\* one order in which the executor may hold the rows of a table
RECURSIVE SeqOfRows(_)
SeqOfRows(T) ==
    IF T = {} THEN << >>
    ELSE LET r == CHOOSE x \in T : TRUE
         IN  << r >> \o SeqOfRows(T \ {r})

\* __splink__clustering_output: `select * from t` of every table of the
\* list, joined by UNION ALL (duplicates kept); one row order of it
RECURSIVE ClusteringOutputQuery(_)
ClusteringOutputQuery(tables) ==
    IF tables = << >> THEN << >>
    ELSE SeqOfRows(Head(tables)) \o ClusteringOutputQuery(Tail(tables))

\* Orders in which the executor may return the rows of a query that has no
\* `order by`: a scan may start at any row and run in either direction.
RowOrders(rows) ==
    LET n == Len(rows)
        Rotated(k) == [i \in 1..n |-> rows[((i + k - 1) % n) + 1]]
        Reversed(s) == [i \in 1..n |-> s[n + 1 - i]]
    IN  IF n = 0 THEN { rows }
        ELSE { Rotated(k) : k \in 0..(n - 1) }
             \cup { Reversed(Rotated(k)) : k \in 0..(n - 1) }

\* OrderByLE with the two keys swapped: `order by node_id, cluster_id`
OrderByLENodeIdFirst(a, b) ==
    \/ a.node_id < b.node_id
    \/ a.node_id = b.node_id /\ a.cluster_id <= b.cluster_id

\* `order by cluster_id, node_id` compares cluster_id first, then node_id
OrderByLE(a, b) ==
    \/ a.cluster_id < b.cluster_id
    \/ a.cluster_id = b.cluster_id /\ a.node_id <= b.node_id

\* `order by`: the rows, sorted
RECURSIVE OrderBy(_)
OrderBy(rows) ==
    IF rows = << >> THEN << >>
    ELSE LET last == rows[Len(rows)]
             sorted == OrderBy(SubSeq(rows, 1, Len(rows) - 1))
             k == Cardinality({i \in 1..Len(sorted) : OrderByLE(sorted[i], last)})
         IN  SubSeq(sorted, 1, k) \o << last >> \o SubSeq(sorted, k + 1, Len(sorted))

\* ClusteringOutputFinalQuery without its `order by`
ClusteringOutputFinalQueryUnordered(rows) ==
    [i \in 1..Len(rows) |->
        [cluster_id |-> rows[i].representative, node_id |-> rows[i].node_id]]

\* __splink__clustering_output_final: representative as cluster_id and
\* node_id, ordered by cluster_id, node_id
ClusteringOutputFinalQuery(rows) ==
    OrderBy([i \in 1..Len(rows) |->
                [cluster_id |-> rows[i].representative,
                 node_id |-> rows[i].node_id]])

----------------------------------------------------------------------------
(* cluster_pairwise_predictions_at_threshold *)

PleaseSpecifyOnlyOne == "Please specify only one"

RECURSIVE Pow2(_)
Pow2(w) == IF w = 0 THEN 1 ELSE 2 * Pow2(w - 1)

\* MatchWeightToProbability with the odds inverted: 1 / (1 + 2^w)
MatchWeightToProbabilityInverted(w) == Prob(1, 1 + Pow2(w[1]))

\* the probability p with match weight w = log2(p / (1 - p))
MatchWeightToProbability(w) == Prob(Pow2(w[1]), 1 + Pow2(w[1]))

----------------------------------------------------------------------------
(* Inputs *)

\* the subsets of S with at most k elements
RECURSIVE SubsetsUpTo(_, _)
SubsetsUpTo(S, k) ==
    IF k = 0 \/ S = {} THEN { {} }
    ELSE LET x == CHOOSE y \in S : TRUE
             rest == S \ {x}
         IN  SubsetsUpTo(rest, k) \cup {T \cup {x} : T \in SubsetsUpTo(rest, k - 1)}

ThresholdProbValues == { None, Prob(4, 5) }
ThresholdWeightValues == { None, << 2 >> }

NodeTables == { 1..n : n \in 0..MaxNode }

\* The scored pairs a predictions table is drawn from: one row per unordered
\* pair of ids; the ids decide which of the two is stored on the left and
\* which of three probabilities (below, at and above the thresholds) the
\* pair scored.
PairProbability(a, b) ==
    CASE (a + b) % 3 = 0 -> Prob(19, 20)
      [] (a + b) % 3 = 1 -> Prob(4, 5)
      [] OTHER -> Prob(1, 2)

EdgeRows(N) ==
    { [node_id_l |-> IF (x[1] + x[2]) % 2 = 1 THEN x[1] ELSE x[2],
       node_id_r |-> IF (x[1] + x[2]) % 2 = 1 THEN x[2] ELSE x[1],
       match_probability |-> PairProbability(x[1], x[2])] :
          x \in {y \in N \X N : y[1] < y[2]} }

EdgeTables(N) == SubsetsUpTo(EdgeRows(N), MaxEdges)

\* the reference of the caller's settings object
LinkerRef == "linker"

EstimateUFresh ==
    /\ heap = [r \in {LinkerRef} |-> linker_settings]
    /\ settings_obj = None
    /\ total_nodes = None
    /\ sample_size = None
    /\ proportion = None
    /\ random_sample = None
    /\ param_records = {}
    /\ u_raised = NoError

\* no call of estimate_u_values is made
EstimateUIdle ==
    /\ linker_settings = None
    /\ sql_dialect = None
    /\ frame_counts = << >>
    /\ max_pairs = 0
    /\ comparison_vector_counts = << >>
    /\ u_pc = "idle"
    /\ EstimateUFresh

\* no call was made on the creator
NoCall == [name |-> "", m |-> None, u |-> None]

\* no ComparisonCreator is made
CreatorIdle ==
    /\ comparison_levels = << >>
    /\ m_probabilities = None
    /\ u_probabilities = None
    /\ configured_levels = None
    /\ creator_raised = NoError
    /\ last_call = NoCall
    /\ creator_calls = 0

\* no ForenameSurnameComparisonBase is made
TemplateIdle ==
    /\ forename_surname_arguments = None
    /\ forename_surname_levels = None

\* the working state before a call
Fresh ==
    /\ cc_threshold = None
    /\ edges = {}
    /\ neighbours = {}
    /\ representatives = {}
    /\ prev_representatives_table = {}
    /\ representatives_stable = {}
    /\ converged_repr_tables = << >>
    /\ iteration = 0
    /\ root_rows_count = 0
    /\ submitted = << >>
    /\ database = {}
    /\ output = << >>
    /\ error = NoError

Init ==
    /\ nodes_table \in NodeTables
    /\ edges_table \in EdgeTables(nodes_table)
    /\ threshold_match_weight \in ThresholdWeightValues
    /\ threshold_match_probability \in ThresholdProbValues
    /\ pc = "call"
    /\ run = 1
    /\ first_output = << >>
    /\ Fresh
    /\ EstimateUIdle
    /\ CreatorIdle
    /\ TemplateIdle

inputs == << nodes_table, edges_table, threshold_match_weight,
             threshold_match_probability >>

----------------------------------------------------------------------------
(* Actions *)

\* the loop runs at most this many times in the model
IterationCap == MaxNode + 2

\* PhysicalNameOfPrev when `prev_representatives_table = representatives_thinned`
\* is done before the drop: the table dropped is the new thinned table
PhysicalNameOfPrevAfterUpdate(i) == << "representatives_thinned", i >>

\* the table that prev_representatives_table names when iteration i computes
\* its thinned table: the initial representatives in the first iteration, the
\* thinned table of the iteration before in the others
PhysicalNameOfPrev(i) ==
    IF i = 1 THEN << "__splink__df_representatives", 0 >>
    ELSE << "representatives_thinned", i - 1 >>

\* ClusterPairwisePredictionsAtThreshold without the check that only one
\* threshold is given: the match weight wins
ClusterPairwisePredictionsAtThresholdUnchecked ==
    /\ UNCHANGED << estimate_u_vars, creator_vars, template_vars >>
    /\ pc = "call"
    /\ cc_threshold' =
           IF threshold_match_weight # None
           THEN MatchWeightToProbability(threshold_match_weight)
           ELSE threshold_match_probability
    /\ pc' = "edges"
    /\ UNCHANGED << inputs, edges, neighbours, representatives,
                    prev_representatives_table, representatives_stable,
                    converged_repr_tables, iteration, root_rows_count,
                    submitted, database, output, error, run, first_output >>

ClusterPairwisePredictionsAtThreshold ==
    /\ UNCHANGED << estimate_u_vars, creator_vars, template_vars >>
    /\ pc = "call"
    /\ IF threshold_match_weight # None /\ threshold_match_probability # None
       THEN /\ error' = PleaseSpecifyOnlyOne
            /\ pc' = "error"
            /\ UNCHANGED cc_threshold
       ELSE /\ cc_threshold' =
                   IF threshold_match_weight # None
                   THEN MatchWeightToProbability(threshold_match_weight)
                   ELSE threshold_match_probability
            /\ pc' = "edges"
            /\ UNCHANGED error
    /\ UNCHANGED << inputs, edges, neighbours, representatives,
                    prev_representatives_table, representatives_stable,
                    converged_repr_tables, iteration, root_rows_count,
                    submitted, database, output, run, first_output >>

SubmitEdges ==
    /\ UNCHANGED << estimate_u_vars, creator_vars, template_vars >>
    /\ pc = "edges"
    /\ edges' = EdgesQuery(nodes_table, edges_table, cc_threshold)
    /\ submitted' = Append(submitted, << "__splink__edges", 0 >>)
    /\ database' = database \cup {<< "__splink__edges", 0 >>}
    /\ pc' = "neighbours"
    /\ UNCHANGED << inputs, cc_threshold, neighbours, representatives,
                    prev_representatives_table, representatives_stable,
                    converged_repr_tables, iteration, root_rows_count,
                    output, error, run, first_output >>

SubmitNeighbours ==
    /\ UNCHANGED << estimate_u_vars, creator_vars, template_vars >>
    /\ pc = "neighbours"
    /\ neighbours' = NeighboursQuery(NodesQuery(nodes_table), edges)
    /\ submitted' = Append(submitted, << "__splink__df_neighbours", 0 >>)
    /\ database' = database \cup {<< "__splink__df_neighbours", 0 >>}
    /\ pc' = "representatives"
    /\ UNCHANGED << inputs, cc_threshold, edges, representatives,
                    prev_representatives_table, representatives_stable,
                    converged_repr_tables, iteration, root_rows_count,
                    output, error, run, first_output >>

SubmitInitialRepresentatives ==
    /\ UNCHANGED << estimate_u_vars, creator_vars, template_vars >>
    /\ pc = "representatives"
    /\ LET reprT == InitialRepresentativesQuery(neighbours)
           firstIterT == NeighboursFirstIterQuery(neighbours, reprT)
           result == RepresentativesFirstIterQuery(firstIterT, reprT)
       IN  /\ representatives' = result
           /\ prev_representatives_table' = result
    /\ submitted' = Append(submitted, << "__splink__df_representatives", 0 >>)
    /\ database' = database \cup {<< "__splink__df_representatives", 0 >>}
    /\ iteration' = 0
    /\ root_rows_count' = 1
    /\ converged_repr_tables' = << >>
    /\ pc' = "while"
    /\ UNCHANGED << inputs, cc_threshold, edges, neighbours,
                    representatives_stable, output, error, run, first_output >>

SubmitRepresentativesLoop ==
    /\ UNCHANGED << estimate_u_vars, creator_vars, template_vars >>
    /\ pc = "while"
    /\ root_rows_count > 0
    /\ iteration < IterationCap
    /\ iteration' = iteration + 1
    /\ representatives' =
           UpdateRepresentativesLoopCondQuery(
               RepresentativesLoopCondQuery(neighbours, prev_representatives_table),
               prev_representatives_table)
    /\ submitted' = Append(submitted, << "__splink__df_representatives_", iteration' >>)
    /\ database' = database \cup {<< "__splink__df_representatives_", iteration' >>}
    /\ pc' = "stable"
    /\ UNCHANGED << inputs, cc_threshold, edges, neighbours,
                    prev_representatives_table, representatives_stable,
                    converged_repr_tables, root_rows_count, output, error,
                    run, first_output >>

SubmitRepresentativesStable ==
    /\ UNCHANGED << estimate_u_vars, creator_vars, template_vars >>
    /\ pc = "stable"
    /\ LET composition == ClusterCompositionQuery(representatives, neighbours)
           stable == StableClustersQuery(composition)
           result == RepresentativesStableQuery(representatives, stable)
       IN  /\ representatives_stable' = result
           /\ converged_repr_tables' = Append(converged_repr_tables, result)
    /\ submitted' = Append(submitted, << "__splink__representatives_stable", iteration >>)
    /\ database' = database \cup {<< "__splink__representatives_stable", iteration >>}
    /\ pc' = "thin"
    /\ UNCHANGED << inputs, cc_threshold, edges, neighbours, representatives,
                    prev_representatives_table, iteration, root_rows_count,
                    output, error, run, first_output >>

SubmitRepresentativesThinned ==
    /\ UNCHANGED << estimate_u_vars, creator_vars, template_vars >>
    /\ pc = "thin"
    /\ prev_representatives_table' =
           RepresentativesThinnedQuery(representatives, representatives_stable)
    /\ submitted' = Append(submitted, << "representatives_thinned", iteration >>)
    /\ database' = (database \cup {<< "representatives_thinned", iteration >>})
                       \ {PhysicalNameOfPrev(iteration)}
    /\ pc' = "exit"
    /\ UNCHANGED << inputs, cc_threshold, edges, neighbours, representatives,
                    representatives_stable, converged_repr_tables, iteration,
                    root_rows_count, output, error, run, first_output >>

SubmitExitCondition ==
    /\ UNCHANGED << estimate_u_vars, creator_vars, template_vars >>
    /\ pc = "exit"
    /\ root_rows_count' = AssessExitConditionQuery(prev_representatives_table)
    /\ submitted' = Append(submitted, << "__splink__df_root_rows", iteration >>)
    /\ database' = (database \cup {<< "__splink__df_root_rows", iteration >>})
                       \ {<< "__splink__df_root_rows", iteration >>}
    /\ pc' = "while"
    /\ UNCHANGED << inputs, cc_threshold, edges, neighbours, representatives,
                    prev_representatives_table, representatives_stable,
                    converged_repr_tables, iteration, output, error, run,
                    first_output >>

SubmitClusteringOutput ==
    /\ UNCHANGED << estimate_u_vars, creator_vars, template_vars >>
    /\ pc = "while"
    /\ ~(root_rows_count > 0)
    /\ \E rows \in RowOrders(ClusteringOutputQuery(converged_repr_tables)) :
           output' = ClusteringOutputFinalQuery(rows)
    /\ submitted' = Append(submitted, << "__splink__clustering_output_final", 0 >>)
    /\ database' = database \cup {<< "__splink__clustering_output_final", 0 >>}
    /\ pc' = "done"
    /\ UNCHANGED << inputs, cc_threshold, edges, neighbours, representatives,
                    prev_representatives_table, representatives_stable,
                    converged_repr_tables, iteration, root_rows_count, error,
                    run, first_output >>

\* the caller clusters the same predictions a second time
CallAgain ==
    /\ UNCHANGED << estimate_u_vars, creator_vars, template_vars >>
    /\ pc = "done"
    /\ run = 1
    /\ run' = 2
    /\ first_output' = output
    /\ pc' = "call"
    /\ cc_threshold' = None
    /\ edges' = {}
    /\ neighbours' = {}
    /\ representatives' = {}
    /\ prev_representatives_table' = {}
    /\ representatives_stable' = {}
    /\ converged_repr_tables' = << >>
    /\ iteration' = 0
    /\ root_rows_count' = 0
    /\ submitted' = << >>
    /\ database' = {}
    /\ output' = << >>
    /\ error' = NoError
    /\ UNCHANGED inputs

\* the weight w and the probability p are the same threshold:
\* w = log2(p / (1 - p))
EquivalentThresholds(w, p) == p[1] = Pow2(w[1]) * (p[2] - p[1])

\* the caller clusters the same predictions again, now with the
\* match probability that is equivalent to the match weight of the first call
CallWithEquivalentProbability ==
    /\ UNCHANGED << estimate_u_vars, creator_vars, template_vars >>
    /\ pc = "done"
    /\ run = 1
    /\ threshold_match_weight # None
    /\ \E p \in ThresholdProbValues \ {None} :
           /\ EquivalentThresholds(threshold_match_weight, p)
           /\ threshold_match_probability' = p
    /\ threshold_match_weight' = None
    /\ run' = 3
    /\ first_output' = output
    /\ pc' = "call"
    /\ cc_threshold' = None
    /\ edges' = {}
    /\ neighbours' = {}
    /\ representatives' = {}
    /\ prev_representatives_table' = {}
    /\ representatives_stable' = {}
    /\ converged_repr_tables' = << >>
    /\ iteration' = 0
    /\ root_rows_count' = 0
    /\ submitted' = << >>
    /\ database' = {}
    /\ output' = << >>
    /\ error' = NoError
    /\ UNCHANGED << nodes_table, edges_table >>

\* the materialised tables that the SQL of the next submission names: the
\* input dataframes of its pipeline and the physical names in its text
TablesReferenced ==
    CASE pc = "neighbours" -> { << "__splink__edges", 0 >> }
      [] pc = "representatives" -> { << "__splink__df_neighbours", 0 >> }
      [] pc = "while" /\ root_rows_count > 0 ->
             { << "__splink__df_neighbours", 0 >>,
               IF iteration = 0 THEN << "__splink__df_representatives", 0 >>
               ELSE << "representatives_thinned", iteration >> }
      [] pc = "stable" ->
             { << "__splink__df_neighbours", 0 >>,
               << "__splink__df_representatives_", iteration >> }
      [] pc = "thin" ->
             { << "__splink__representatives_stable", iteration >>,
               << "__splink__df_representatives_", iteration >> }
      [] pc = "exit" -> { << "representatives_thinned", iteration >> }
      [] pc = "while" /\ ~(root_rows_count > 0) ->
             { << "__splink__representatives_stable", i >> :
                   i \in DOMAIN converged_repr_tables }
      [] OTHER -> {}

Next ==
    \/ ClusterPairwisePredictionsAtThreshold
    \/ SubmitEdges
    \/ SubmitNeighbours
    \/ SubmitInitialRepresentatives
    \/ SubmitRepresentativesLoop
    \/ SubmitRepresentativesStable
    \/ SubmitRepresentativesThinned
    \/ SubmitExitCondition
    \/ SubmitClusteringOutput
    \/ CallAgain
    \/ CallWithEquivalentProbability

\* ids up to which the misconfigured inputs range
MaxMisconfiguredId == 4

\* an edges table that names an id the nodes table does not hold
InitMisconfigured ==
    /\ nodes_table \in SUBSET (1..MaxMisconfiguredId)
    /\ edges_table \in { t \in EdgeTables(1..MaxMisconfiguredId) :
                            \E e \in t : \/ e.node_id_l \notin nodes_table
                                         \/ e.node_id_r \notin nodes_table }
    /\ threshold_match_weight \in ThresholdWeightValues
    /\ threshold_match_probability \in ThresholdProbValues
    /\ pc = "call"
    /\ run = 1
    /\ first_output = << >>
    /\ Fresh
    /\ EstimateUIdle
    /\ CreatorIdle
    /\ TemplateIdle

SpecMisconfigured == InitMisconfigured /\ [][Next]_vars

Spec == Init /\ [][Next]_vars

----------------------------------------------------------------------------
(* Numbers of estimate_u.py *)

\* A python float is kept as the exact fraction num/den; only the square
\* root rounds, down to a multiple of 1/SqrtScale.
SqrtScale == 10

Frac(num, den) == << num, den >>

FracAdd(a, b) == Frac(a[1] * b[2] + b[1] * a[2], a[2] * b[2])

FracMul(a, b) == Frac(a[1] * b[1], a[2] * b[2])

\* a / b for b # 0
FracDiv(a, b) == Frac(a[1] * b[2], a[2] * b[1])

FracEq(a, b) == a[1] * b[2] = b[1] * a[2]

FracGE(a, b) == a[1] * b[2] >= b[1] * a[2]

FracGT(a, b) == a[1] * b[2] > b[1] * a[2]

\* the largest k in lo..hi with k * k <= x, by bisection
RECURSIVE IsqrtBetween(_, _, _)
IsqrtBetween(x, lo, hi) ==
    IF lo = hi THEN lo
    ELSE LET mid == (lo + hi + 1) \div 2
         IN  IF mid <= x \div mid
             THEN IsqrtBetween(x, mid, hi)
             ELSE IsqrtBetween(x, lo, mid - 1)

Isqrt(x) == IF x = 0 THEN 0 ELSE IsqrtBetween(x, 1, x)

\* a ** 0.5
Sqrt(a) == Frac(Isqrt((a[1] * SqrtScale * SqrtScale) \div a[2]), SqrtScale)

RECURSIVE SumSeq(_)
SumSeq(q) == IF q = << >> THEN 0 ELSE q[1] + SumSeq(Tail(q))

ZeroDivisionError == "ZeroDivisionError"

----------------------------------------------------------------------------
(* The sample size of estimate_u.py *)

\* RowsNeededForNPairs with the other root of r(r-1)/2 = n_pairs
RowsNeededForNPairsOtherRoot(n_pairs) ==
    FracMul(Frac(1, 2), FracAdd(Sqrt(Frac(8 * n_pairs + 1, 1)), Frac(-1, 1)))

\* _rows_needed_for_n_pairs: 0.5 * ((8 * n_pairs + 1) ** 0.5 + 1)
RowsNeededForNPairs(n_pairs) ==
    FracMul(Frac(1, 2), FracAdd(Sqrt(Frac(8 * n_pairs + 1, 1)), Frac(1, 1)))

\* total_links that also counts the pairs within a frame
TotalLinksWithinFrames(row_counts_individual_dfs) ==
    (SumSeq(row_counts_individual_dfs) * SumSeq(row_counts_individual_dfs)) \div 2

\* total_links: (sum(counts) ** 2 - sum(count ** 2)) / 2; the difference is even
TotalLinks(row_counts_individual_dfs) ==
    (SumSeq(row_counts_individual_dfs) * SumSeq(row_counts_individual_dfs)
        - SumSeq([i \in DOMAIN row_counts_individual_dfs |->
                     row_counts_individual_dfs[i] * row_counts_individual_dfs[i]]))
    \div 2

\* _proportion_sample_size_link_only: the pair it returns, or the
\* ZeroDivisionError of `max_pairs / total_links`
ProportionSampleSizeLinkOnly(row_counts_individual_dfs, maxPairs) ==
    LET total_links == TotalLinks(row_counts_individual_dfs)
        totalNodes == SumSeq(row_counts_individual_dfs)
    IN  IF total_links = 0
        THEN [raised |-> ZeroDivisionError, proportion |-> None, sample_size |-> None]
        ELSE LET prop == Sqrt(Frac(maxPairs, total_links))
             IN  [raised |-> NoError,
                  proportion |-> prop,
                  sample_size |-> FracMul(prop, Frac(totalNodes, 1))]

\* `if proportion >= 1.0: proportion = 1.0`
ClampProportion(prop) ==
    IF FracGE(prop, Frac(1, 1)) THEN Frac(1, 1) ELSE prop

\* the sample size without its cap
ClampSampleSizeMissing(size, totalNodes) == size

\* `if sample_size > total_nodes: sample_size = total_nodes`
ClampSampleSize(size, totalNodes) ==
    IF FracGT(size, Frac(totalNodes, 1)) THEN Frac(totalNodes, 1) ELSE size

----------------------------------------------------------------------------
(* The settings object and the parameter records *)

TrainingDescription == "estimate u by random sampling"

ComparisonLevel(isNull, m, tf, trained) ==
    [is_null_level |-> isNull, m_probability |-> m,
     trained_u_probabilities |-> trained, tf_adjustment_column |-> tf]

\* a null level, an exact-match level with a term-frequency adjustment (the
\* column name in a tuple, None being the empty one), an else level
ComparisonFirstName ==
    [output_column_name |-> "first_name",
     comparison_levels |->
         << ComparisonLevel(TRUE, None, None, << >>),
            ComparisonLevel(FALSE, Frac(9, 10), << "first_name" >>, << >>),
            ComparisonLevel(FALSE, Frac(1, 10), None, << >>) >>]

\* no null level; the first level holds a u probability of an earlier training
ComparisonDob ==
    [output_column_name |-> "dob",
     comparison_levels |->
         << ComparisonLevel(FALSE, None, None,
                << [probability |-> Frac(1, 4), description |-> "an earlier session"] >>),
            ComparisonLevel(FALSE, None, None, << >>) >>]

\* blocking_rule_to_obj: a blocking rule and the partitions it is salted over
BlockingRuleToObj(rule, salting_partitions) ==
    [blocking_rule |-> rule, salting_partitions |-> salting_partitions]

SettingsOf(linkType, comparisons) ==
    [link_type |-> linkType,
     retain_matching_columns |-> TRUE,
     retain_intermediate_calculation_columns |-> TRUE,
     blocking_rules_to_generate_predictions |-> << BlockingRuleToObj("l.dob = r.dob", 1) >>,
     comparisons |-> comparisons]

LinkTypes == { "dedupe_only", "link_and_dedupe", "link_only" }

\* _comparison_levels_excluding_null, as positions in the level order
LevelsExcludingNull(comparison) ==
    { i \in DOMAIN comparison.comparison_levels :
          ~comparison.comparison_levels[i].is_null_level }

ProbabilityTwoRandomRecordsMatch == "_probability_two_random_records_match"

EstimationError == "EstimationError"

\* the records of one comparison over every level, the null level too
ComputeProportionsOverAllLevels(comparison, counts) ==
    LET total == SumSeq(counts)
    IN  { [output_column_name |-> comparison.output_column_name,
           comparison_vector_value |-> i,
           u_probability |-> Frac(counts[i], total)] :
              i \in DOMAIN comparison.comparison_levels }

\* __splink__m_u_counts and compute_proportions_for_new_parameters for one
\* comparison: every sampled pair weighs 1 - match_probability = 1 in the u
\* count of its level; the count of each non-null level is divided by the
\* sum of the counts of the non-null levels
ComputeProportions(comparison, counts) ==
    LET levels == LevelsExcludingNull(comparison)
        total == SumSeq([i \in DOMAIN counts |-> IF i \in levels THEN counts[i] ELSE 0])
    IN  { [output_column_name |-> comparison.output_column_name,
           comparison_vector_value |-> i,
           u_probability |-> Frac(counts[i], total)] : i \in levels }

\* the comparisons whose non-null levels hold no sampled pair
UnobservedComparisons(comparisons, counts) ==
    { c \in DOMAIN comparisons :
          \A i \in LevelsExcludingNull(comparisons[c]) : counts[c][i] = 0 }

\* param_records: the records of every comparison and the record of the
\* probability that two random records match
ComputeProportionsForNewParameters(comparisons, counts) ==
    UNION { ComputeProportions(comparisons[c], counts[c]) : c \in DOMAIN comparisons }
    \cup { [output_column_name |-> ProbabilityTwoRandomRecordsMatch,
            comparison_vector_value |-> 0,
            u_probability |-> Frac(1, 1)] }

\* m_u_records: the records but that of _probability_two_random_records_match
MURecords(records) ==
    { r \in records : r.output_column_name # ProbabilityTwoRandomRecordsMatch }

\* append_u_probability_to_comparison_level_trained_probabilities: the level
\* with the u probability of its record appended to its trained u
\* probabilities
AppendUProbability(level, i, records, output_column_name) ==
    LET r == CHOOSE x \in records :
                 /\ x.output_column_name = output_column_name
                 /\ x.comparison_vector_value = i
    IN  [level EXCEPT !.trained_u_probabilities =
            Append(@, [probability |-> r.u_probability,
                       description |-> TrainingDescription])]

----------------------------------------------------------------------------
(* estimate_u_values: inputs *)

MaxFrames == 3
MaxRows == 3
MaxPairs == 10
MaxLevelCount == 3

\* the row counts per source dataset: up to MaxFrames datasets of 1..MaxRows rows
FrameCountsChoices ==
    UNION { [1..k -> 1..MaxRows] : k \in 0..MaxFrames }

\* for every comparison the number of sampled pairs in each of its levels;
\* every pair is in one level of every comparison
VectorCountsChoices(comparisons) ==
    LET perLevel == UNION { [DOMAIN comparisons[c].comparison_levels -> 0..MaxLevelCount] :
                                c \in DOMAIN comparisons }
    IN  { q \in [DOMAIN comparisons -> perLevel] :
              /\ \A c \in DOMAIN comparisons :
                     DOMAIN q[c] = DOMAIN comparisons[c].comparison_levels
              /\ \A c \in DOMAIN comparisons, d \in DOMAIN comparisons :
                     SumSeq(q[c]) = SumSeq(q[d]) }

\* every link type, frame sizes and budget, with one comparison and one sample
SamplerInputs ==
    /\ \E lt \in LinkTypes : linker_settings = SettingsOf(lt, << ComparisonFirstName >>)
    /\ \/ /\ frame_counts \in FrameCountsChoices
          /\ max_pairs \in 0..MaxPairs
       \/ /\ frame_counts = << 1000 >>
          /\ max_pairs \in { 10000, 1000000 }
    /\ sql_dialect = "duckdb"
    /\ comparison_vector_counts = << << 1, 3, 1 >> >>

\* every sample of one or two comparisons, with one set of frames
SampleInputs ==
    /\ \E cs \in { << ComparisonFirstName >>, << ComparisonFirstName, ComparisonDob >> } :
           /\ linker_settings = SettingsOf("dedupe_only", cs)
           /\ comparison_vector_counts \in VectorCountsChoices(cs)
    /\ frame_counts = << 1000 >>
    /\ max_pairs \in { 10000, 1000000 }
    /\ sql_dialect \in { "duckdb", "spark" }

\* no clustering call is made
ClusteringIdle ==
    /\ nodes_table = {}
    /\ edges_table = {}
    /\ threshold_match_weight = None
    /\ threshold_match_probability = None
    /\ pc = "idle"
    /\ run = 1
    /\ first_output = << >>
    /\ Fresh

InitEstimateU ==
    /\ SamplerInputs \/ SampleInputs
    /\ u_pc = "call"
    /\ EstimateUFresh
    /\ ClusteringIdle
    /\ CreatorIdle
    /\ TemplateIdle

----------------------------------------------------------------------------
(* estimate_u_values: actions *)

\* multiprocessing.cpu_count() of the machine
CpuCount == 4

\* SampleBlockingRules with `>=` written for `>`
SampleBlockingRulesAtLeast(dialect, maxPairs) ==
    IF dialect = "duckdb" /\ maxPairs >= 10000
    THEN << BlockingRuleToObj("1=1", CpuCount) >>
    ELSE << >>

\* lines 137-146: the blocking rules the sampled pairs are made with
SampleBlockingRules(dialect, maxPairs) ==
    IF dialect = "duckdb" /\ maxPairs > 10000
    THEN << BlockingRuleToObj("1=1", CpuCount) >>
    ELSE << >>

\* deepcopy that hands back the object it was given
DeepcopyAliased(ref) == ref

\* deepcopy(linker): the reference of a new object
Deepcopy(ref) == "training_linker"

\* `cl._tf_adjustment_column = None` for every level of a comparison
ClearTfAdjustmentColumns(comparison) ==
    [comparison EXCEPT !.comparison_levels =
        [l \in DOMAIN comparison.comparison_levels |->
            [comparison.comparison_levels[l] EXCEPT !.tf_adjustment_column = None]]]

\* lines 63-82: the training linker is a deep copy; its settings lose the
\* retain flags and the term-frequency adjustment columns
DeepcopyLinker ==
    /\ u_pc = "call"
    /\ LET training == Deepcopy(LinkerRef)
           copied == (training :> heap[LinkerRef]) @@ heap
           copy == copied[training]
       IN  /\ settings_obj' = training
           /\ heap' = [copied EXCEPT ![training] =
                  [copy EXCEPT
                      !.retain_matching_columns = FALSE,
                      !.retain_intermediate_calculation_columns = FALSE,
                      !.comparisons = [c \in DOMAIN copy.comparisons |->
                                          ClearTfAdjustmentColumns(copy.comparisons[c])]]]
    /\ u_pc' = "count"
    /\ UNCHANGED << clustering_state, database, creator_vars, template_vars, estimate_u_inputs,
                    total_nodes, sample_size, proportion, random_sample,
                    param_records, u_raised >>

\* lines 84-115: the row counts are read (the count table is dropped at
\* once) and the proportion and the sample size computed
SubmitCount ==
    /\ u_pc = "count"
    /\ database' = (database \cup {<< "__splink__df_concat_count", 0 >>})
                       \ {<< "__splink__df_concat_count", 0 >>}
    /\ IF heap[settings_obj].link_type \in {"dedupe_only", "link_and_dedupe"}
       THEN /\ total_nodes' = SumSeq(frame_counts)
            /\ sample_size' = RowsNeededForNPairs(max_pairs)
            /\ IF total_nodes' = 0
               THEN /\ u_raised' = ZeroDivisionError
                    /\ u_pc' = "raised"
                    /\ UNCHANGED proportion
               ELSE /\ proportion' = FracDiv(sample_size', Frac(total_nodes', 1))
                    /\ u_pc' = "sample"
                    /\ UNCHANGED u_raised
       ELSE LET result == ProportionSampleSizeLinkOnly(frame_counts, max_pairs)
            IN  IF result.raised # NoError
                THEN /\ u_raised' = result.raised
                     /\ u_pc' = "raised"
                     /\ UNCHANGED << total_nodes, sample_size, proportion >>
                ELSE /\ proportion' = result.proportion
                     /\ sample_size' = result.sample_size
                     /\ total_nodes' = SumSeq(frame_counts)
                     /\ u_pc' = "sample"
                     /\ UNCHANGED u_raised
    /\ UNCHANGED << clustering_state, creator_vars, template_vars, estimate_u_inputs, heap,
                    settings_obj, random_sample, param_records >>

\* lines 117-133: the caps, and the sample drawn with them
SubmitSample ==
    /\ u_pc = "sample"
    /\ proportion' = ClampProportion(proportion)
    /\ sample_size' = ClampSampleSize(sample_size, total_nodes)
    /\ random_sample' = [proportion |-> proportion', sample_size |-> sample_size']
    /\ database' = database \cup {<< "__splink__df_concat_sample", 0 >>}
    /\ u_pc' = "m_u_counts"
    /\ UNCHANGED << clustering_state, creator_vars, template_vars, estimate_u_inputs, heap,
                    settings_obj, total_nodes, param_records, u_raised >>

\* lines 135-205: the blocking rules of the training settings are replaced,
\* the sampled pairs are compared and counted per level (which table the
\* pairs are drawn from changes the pairs, not the steps), the proportions
\* computed and the two tables dropped
SubmitMUCounts ==
    /\ u_pc = "m_u_counts"
    /\ heap' = [heap EXCEPT ![settings_obj].blocking_rules_to_generate_predictions =
                   SampleBlockingRules(sql_dialect, max_pairs)]
    /\ IF UnobservedComparisons(heap[settings_obj].comparisons,
                                comparison_vector_counts) # {}
       THEN /\ u_raised' = EstimationError
            /\ u_pc' = "raised"
            /\ database' = database \cup {<< "__splink__m_u_counts", 0 >>}
            /\ UNCHANGED param_records
       ELSE /\ param_records' =
                   ComputeProportionsForNewParameters(heap[settings_obj].comparisons,
                                                      comparison_vector_counts)
            /\ database' = database \ {<< "__splink__m_u_counts", 0 >>,
                                       << "__splink__df_concat_sample", 0 >>}
            /\ u_pc' = "append"
            /\ UNCHANGED u_raised
    /\ UNCHANGED << clustering_state, creator_vars, template_vars, estimate_u_inputs,
                    settings_obj, total_nodes, sample_size, proportion, random_sample >>

\* lines 207-222: every non-null level of the caller's settings is given the
\* u probability of its record
AppendTrainedU ==
    /\ u_pc = "append"
    /\ LET original == heap[LinkerRef]
           records == MURecords(param_records)
       IN  heap' = [heap EXCEPT ![LinkerRef].comparisons =
               [c \in DOMAIN original.comparisons |->
                   [original.comparisons[c] EXCEPT !.comparison_levels =
                       [l \in DOMAIN original.comparisons[c].comparison_levels |->
                           IF l \in LevelsExcludingNull(original.comparisons[c])
                           THEN AppendUProbability(
                                    original.comparisons[c].comparison_levels[l], l,
                                    records, original.comparisons[c].output_column_name)
                           ELSE original.comparisons[c].comparison_levels[l]]]]]
    /\ u_pc' = "returned"
    /\ UNCHANGED << clustering_state, database, creator_vars, template_vars, estimate_u_inputs,
                    settings_obj, total_nodes, sample_size, proportion,
                    random_sample, param_records, u_raised >>

NextEstimateU ==
    \/ DeepcopyLinker
    \/ SubmitCount
    \/ SubmitSample
    \/ SubmitMUCounts
    \/ AppendTrainedU

SpecEstimateU == InitEstimateU /\ [][NextEstimateU]_vars

----------------------------------------------------------------------------
(* ComparisonCreator *)

MaxLevels == 3
MaxCreatorCalls == 3

ValueError == "ValueError"
IndexError == "IndexError"

\* create_comparison_levels: new level creators with no probability set, one
\* per level of the subclass
CreateComparisonLevels(isNullLevels) ==
    [i \in DOMAIN isNullLevels |->
        [is_null_level |-> isNullLevels[i],
         m_probability |-> None,
         u_probability |-> None]]

\* num_non_null_levels that counts the null levels too
NumNonNullLevelsCountingNull(isNullLevels) == Len(CreateComparisonLevels(isNullLevels))

\* num_non_null_levels
NumNonNullLevels(isNullLevels) ==
    Cardinality({ i \in DOMAIN CreateComparisonLevels(isNullLevels) :
                      ~CreateComparisonLevels(isNullLevels)[i].is_null_level })

\* ComparisonLevelCreator.configure with one keyword: the level with that
\* field set
ConfigureLevel(cl, field, value) == [cl EXCEPT ![field] = value]

\* ConfigureLevels that pops a value for the null levels too
RECURSIVE ConfigureLevelsPopAlways(_, _, _)
ConfigureLevelsPopAlways(levels, values, field) ==
    IF levels = << >>
    THEN [levels |-> << >>, values |-> values, raised |-> NoError]
    ELSE IF values = << >>
         THEN [levels |-> << >>, values |-> << >>, raised |-> IndexError]
         ELSE LET rest == ConfigureLevelsPopAlways(Tail(levels), Tail(values), field)
              IN  [rest EXCEPT !.levels =
                      << ConfigureLevel(Head(levels), field, Head(values)) >> \o @]

\* `[cl.configure(field=values.pop(0) if not cl.is_null_level else None)
\*   for cl in comparison_levels]`: the configured levels, the values left
\* in the list, and the IndexError of a pop from the empty list
RECURSIVE ConfigureLevels(_, _, _)
ConfigureLevels(levels, values, field) ==
    IF levels = << >>
    THEN [levels |-> << >>, values |-> values, raised |-> NoError]
    ELSE IF Head(levels).is_null_level
         THEN LET rest == ConfigureLevels(Tail(levels), values, field)
              IN  [rest EXCEPT !.levels =
                      << ConfigureLevel(Head(levels), field, None) >> \o @]
         ELSE IF values = << >>
              THEN [levels |-> << >>, values |-> << >>, raised |-> IndexError]
              ELSE LET rest == ConfigureLevels(Tail(levels), Tail(values), field)
                   IN  [rest EXCEPT !.levels =
                           << ConfigureLevel(Head(levels), field, Head(values)) >> \o @]

\* a property setter: what is stored afterwards and what is raised.  None
\* and the empty list are both the empty tuple: neither is stored.
SetProbabilities(stored, supplied, isNullLevels) ==
    IF supplied = None
    THEN [stored |-> stored, raised |-> NoError]
    ELSE IF Len(supplied) # NumNonNullLevels(isNullLevels)
         THEN [stored |-> stored, raised |-> ValueError]
         ELSE [stored |-> supplied, raised |-> NoError]

\* the lists a caller supplies: the first values of two lists of
\* probabilities, up to one more than there can be levels
ProbabilityLists ==
    { SubSeq(q, 1, k) :
          q \in { << Frac(9, 10), Frac(8, 100), Frac(2, 100), Frac(1, 100) >>,
                  << Frac(1, 100), Frac(5, 100), Frac(94, 100), Frac(3, 100) >> },
          k \in 0..(MaxLevels + 1) }

\* the levels of a subclass: up to MaxLevels levels, null or not
InitComparisonCreator ==
    /\ comparison_levels \in UNION { [1..k -> BOOLEAN] : k \in 0..MaxLevels }
    /\ m_probabilities = None
    /\ u_probabilities = None
    /\ configured_levels = None
    /\ creator_raised = NoError
    /\ last_call = NoCall
    /\ creator_calls = 0
    /\ ClusteringIdle
    /\ EstimateUIdle
    /\ TemplateIdle

\* `creator.m_probabilities = supplied`
AssignMProbabilities ==
    /\ creator_calls < MaxCreatorCalls
    /\ \E supplied \in ProbabilityLists :
           LET set == SetProbabilities(m_probabilities, supplied, comparison_levels)
           IN  /\ m_probabilities' = set.stored
               /\ creator_raised' = set.raised
               /\ last_call' = [name |-> "m_probabilities", m |-> supplied, u |-> None]
    /\ configured_levels' = None
    /\ creator_calls' = creator_calls + 1
    /\ UNCHANGED << comparison_levels, u_probabilities >>
    /\ UNCHANGED << clustering_state, database, estimate_u_vars, template_vars >>

\* `creator.u_probabilities = supplied`
AssignUProbabilities ==
    /\ creator_calls < MaxCreatorCalls
    /\ \E supplied \in ProbabilityLists :
           LET set == SetProbabilities(u_probabilities, supplied, comparison_levels)
           IN  /\ u_probabilities' = set.stored
               /\ creator_raised' = set.raised
               /\ last_call' = [name |-> "u_probabilities", m |-> None, u |-> supplied]
    /\ configured_levels' = None
    /\ creator_calls' = creator_calls + 1
    /\ UNCHANGED << comparison_levels, m_probabilities >>
    /\ UNCHANGED << clustering_state, database, estimate_u_vars, template_vars >>

\* configure(m_probabilities=m, u_probabilities=u): the two assignments in
\* turn; the ValueError of the first leaves the second undone
Configure ==
    /\ creator_calls < MaxCreatorCalls
    /\ \E m \in ProbabilityLists, u \in ProbabilityLists :
           LET setM == SetProbabilities(m_probabilities, m, comparison_levels)
               setU == SetProbabilities(u_probabilities, u, comparison_levels)
           IN  /\ m_probabilities' = setM.stored
               /\ u_probabilities' = IF setM.raised = NoError
                                     THEN setU.stored ELSE u_probabilities
               /\ creator_raised' = IF setM.raised = NoError
                                    THEN setU.raised ELSE setM.raised
               /\ last_call' = [name |-> "configure", m |-> m, u |-> u]
    /\ configured_levels' = None
    /\ creator_calls' = creator_calls + 1
    /\ UNCHANGED comparison_levels
    /\ UNCHANGED << clustering_state, database, estimate_u_vars, template_vars >>

\* get_configured_comparison_levels: the created levels, configured with a
\* copy of the stored m probabilities when there are any, then with a copy
\* of the stored u probabilities when there are any
GetConfiguredComparisonLevels ==
    /\ creator_calls < MaxCreatorCalls
    /\ LET created == CreateComparisonLevels(comparison_levels)
           withM == IF m_probabilities # None
                    THEN ConfigureLevels(created, m_probabilities, "m_probability")
                    ELSE [levels |-> created, values |-> << >>, raised |-> NoError]
           withU == IF u_probabilities # None /\ withM.raised = NoError
                    THEN ConfigureLevels(withM.levels, u_probabilities, "u_probability")
                    ELSE [levels |-> withM.levels, values |-> << >>, raised |-> withM.raised]
       IN  /\ creator_raised' = withU.raised
           /\ configured_levels' =
                  IF withU.raised = NoError
                  THEN [levels |-> withU.levels,
                        m_values |-> withM.values,
                        u_values |-> withU.values]
                  ELSE None
    /\ last_call' = [name |-> "get_configured_comparison_levels", m |-> None, u |-> None]
    /\ creator_calls' = creator_calls + 1
    /\ UNCHANGED << comparison_levels, m_probabilities, u_probabilities >>
    /\ UNCHANGED << clustering_state, database, estimate_u_vars, template_vars >>

NextComparisonCreator ==
    \/ AssignMProbabilities
    \/ AssignUProbabilities
    \/ Configure
    \/ GetConfiguredComparisonLevels

SpecComparisonCreator == InitComparisonCreator /\ [][NextComparisonCreator]_vars

----------------------------------------------------------------------------
(* ForenameSurnameComparisonBase of comparison_template_library.py *)

ForenameColName == << "forename" >>
SurnameColName == << "surname" >>

\* a comparison level: what it matches, on which column, and its m probability
TemplateLevel(level, col_name, m_probability) ==
    [level |-> level, col_name |-> col_name, m_probability |-> m_probability]

\* or_(self._null_level("forename"), self._null_level("surname"))
TemplateNullLevel == TemplateLevel("null", ForenameColName \o SurnameColName, None)

\* self._exact_match_level(col_name, m_probability=m_probability)
ExactMatchLevel(col_name, m_probability) ==
    TemplateLevel("exact_match", col_name, m_probability)

\* self._columns_reversed_level(forename, surname, m_probability=m_probability)
ColumnsReversedLevel(m_probability) ==
    TemplateLevel("columns_reversed", ForenameColName \o SurnameColName, m_probability)

\* self._else_level(m_probability=m_probability)
ElseLevel(m_probability) == TemplateLevel("else", << >>, m_probability)

\* distance_threshold_comparison_levels: one level per threshold, with the
\* m probability given for it if any
DistanceThresholdComparisonLevels(col_name, function_name, thresholds, m_thres) ==
    [i \in DOMAIN thresholds |->
        TemplateLevel(function_name, col_name,
                      IF m_thres = None THEN None ELSE m_thres[i])]

\* comparison_levels of ForenameSurnameComparisonBase.__init__, in order.
\* The surname exact match level is made with
\* m_probability=m_probability_exact_match_forename.
ForenameSurnameLevels(a) ==
    << TemplateNullLevel >>
    \o (IF a.include_exact_match_level
        THEN << TemplateLevel("exact_match", ForenameColName \o SurnameColName,
                              a.m_probability_exact_match_forename_surname) >>
        ELSE << >>)
    \o (IF a.phonetic_forename_col_name # None /\ a.phonetic_surname_col_name # None
        THEN << TemplateLevel("exact_match",
                              a.phonetic_forename_col_name \o a.phonetic_surname_col_name,
                              a.m_probability_exact_match_phonetic_forename_surname) >>
        ELSE << >>)
    \o (IF a.include_columns_reversed
        THEN << ColumnsReversedLevel(a.m_probability_columns_reversed_forename_surname) >>
        ELSE << >>)
    \o << ExactMatchLevel(SurnameColName, a.m_probability_exact_match_forename) >>
    \o << ExactMatchLevel(ForenameColName, a.m_probability_exact_match_forename) >>
    \o DistanceThresholdComparisonLevels(SurnameColName, "levenshtein",
           a.levenshtein_thresholds_surname, None)
    \o DistanceThresholdComparisonLevels(SurnameColName, "jaro-winkler",
           a.jaro_winkler_thresholds_surname, None)
    \o DistanceThresholdComparisonLevels(SurnameColName, "jaccard",
           a.jaccard_thresholds_surname, None)
    \o DistanceThresholdComparisonLevels(ForenameColName, "levenshtein",
           a.levenshtein_thresholds_forename, None)
    \o DistanceThresholdComparisonLevels(ForenameColName, "jaro-winkler",
           a.jaro_winkler_thresholds_forename, None)
    \o DistanceThresholdComparisonLevels(ForenameColName, "jaccard",
           a.jaccard_thresholds_forename, None)
    \o << ElseLevel(a.m_probability_else) >>

\* the m probabilities a caller gives for one level, None for the default
LevelMProbabilities == { None, Frac(7, 10), Frac(6, 10) }

\* the arguments of a call: the levels to include, the phonetic columns,
\* the thresholds (empty, or the default of the jaro-winkler ones) and the
\* m probabilities of the two single-column exact match levels
ForenameSurnameArguments ==
    [include_exact_match_level : BOOLEAN,
     include_columns_reversed : BOOLEAN,
     phonetic_forename_col_name : { None, << "forename_dm" >> },
     phonetic_surname_col_name : { None, << "surname_dm" >> },
     levenshtein_thresholds_surname : { << >>, << Frac(2, 1) >> },
     jaro_winkler_thresholds_surname : { << >>, << Frac(88, 100) >> },
     jaccard_thresholds_surname : { << >> },
     levenshtein_thresholds_forename : { << >> },
     jaro_winkler_thresholds_forename : { << >>, << Frac(88, 100) >> },
     jaccard_thresholds_forename : { << >> },
     m_probability_exact_match_forename_surname : { Frac(95, 100) },
     m_probability_exact_match_phonetic_forename_surname : { Frac(9, 10) },
     m_probability_columns_reversed_forename_surname : { Frac(85, 100) },
     m_probability_exact_match_surname : LevelMProbabilities,
     m_probability_exact_match_forename : LevelMProbabilities,
     m_probability_else : { Frac(1, 100) }]

InitForenameSurname ==
    /\ forename_surname_arguments \in ForenameSurnameArguments
    /\ forename_surname_levels = None
    /\ ClusteringIdle
    /\ EstimateUIdle
    /\ CreatorIdle

\* ForenameSurnameComparisonBase(forename, surname, ...)
ForenameSurnameComparisonInit ==
    /\ forename_surname_arguments # None
    /\ forename_surname_levels = None
    /\ forename_surname_levels' = ForenameSurnameLevels(forename_surname_arguments)
    /\ UNCHANGED forename_surname_arguments
    /\ UNCHANGED << clustering_state, database, estimate_u_vars, creator_vars >>

NextForenameSurname == ForenameSurnameComparisonInit

SpecForenameSurname == InitForenameSurname /\ [][NextForenameSurname]_vars

----------------------------------------------------------------------------
(* A database API whose pipeline submissions may fail *)

ExecutorError == "ExecutorError"

\* db_api.sql_pipeline_to_splink_dataframe raises in solve_connected_components:
\* the function has no handler, so the exception leaves it with the
\* statements before the submission done and the tables as they are
SubmissionFails ==
    /\ pc \in {"edges", "neighbours", "representatives", "while", "stable",
               "thin", "exit"}
    /\ iteration' = IF pc = "while" /\ root_rows_count > 0
                    THEN iteration + 1 ELSE iteration
    /\ error' = ExecutorError
    /\ pc' = "raised"
    /\ UNCHANGED << inputs, cc_threshold, edges, neighbours, representatives,
                    prev_representatives_table, representatives_stable,
                    converged_repr_tables, root_rows_count, submitted,
                    database, output, run, first_output >>
    /\ UNCHANGED << estimate_u_vars, creator_vars, template_vars >>

\* db_api.sql_pipeline_to_splink_dataframe raises in estimate_u_values, at
\* line 91 or 106, 133 or 200
SubmissionFailsEstimateU ==
    /\ u_pc \in {"count", "sample", "m_u_counts"}
    /\ proportion' = IF u_pc = "sample" THEN ClampProportion(proportion) ELSE proportion
    /\ sample_size' = IF u_pc = "sample"
                      THEN ClampSampleSize(sample_size, total_nodes) ELSE sample_size
    /\ heap' = IF u_pc = "m_u_counts"
               THEN [heap EXCEPT ![settings_obj].blocking_rules_to_generate_predictions =
                        SampleBlockingRules(sql_dialect, max_pairs)]
               ELSE heap
    /\ u_raised' = ExecutorError
    /\ u_pc' = "raised"
    /\ UNCHANGED << clustering_state, database, creator_vars, template_vars, estimate_u_inputs,
                    settings_obj, total_nodes, random_sample, param_records >>

InitFailing == Init \/ InitEstimateU

NextFailing ==
    \/ Next
    \/ NextEstimateU
    \/ SubmissionFails
    \/ SubmissionFailsEstimateU

SpecFailing == InitFailing /\ [][NextFailing]_vars

----------------------------------------------------------------------------
(* Reference notions the properties are stated with *)

\* an input edge is kept unless its probability is strictly below the
\* threshold
NotBelowThreshold(e) ==
    \/ cc_threshold = None
    \/ ~(e.match_probability[1] * cc_threshold[2]
             < cc_threshold[1] * e.match_probability[2])

\* the threshold-filtered edge graph, undirected
Adjacent(a, b) ==
    \E e \in edges_table :
        /\ NotBelowThreshold(e)
        /\ \/ e.node_id_l = a /\ e.node_id_r = b
           \/ e.node_id_l = b /\ e.node_id_r = a

\* breadth-first search
RECURSIVE ReachableFrom(_)
ReachableFrom(S) ==
    LET ids == nodes_table \cup {e.node_id_l : e \in edges_table}
                           \cup {e.node_id_r : e \in edges_table}
        T == S \cup {b \in ids : \E a \in S : Adjacent(a, b)}
    IN  IF T = S THEN S ELSE ReachableFrom(T)

Component(n) == ReachableFrom({n})

MinOf(S) == CHOOSE m \in S : \A x \in S : m <= x

OutputRows == { output[i] : i \in DOMAIN output }

SameCluster(a, b) ==
    \E ra \in OutputRows, rb \in OutputRows :
        /\ ra.node_id = a
        /\ rb.node_id = b
        /\ ra.cluster_id = rb.cluster_id

Returned == pc = "done"

\* the tables of the list that hold at least one row
EmittingIterations == { i \in DOMAIN converged_repr_tables : converged_repr_tables[i] # {} }

----------------------------------------------------------------------------
(* Properties *)

\* C1: when solve_connected_components has returned, two nodes of the
\* nodes table have the same cluster_id in the output exactly when a path
\* of edges that passed the threshold connects them (in either direction),
\* as a breadth-first search of that graph finds.
C1_ReachabilityEquivalence ==
    Returned =>
        \A a \in nodes_table, b \in nodes_table :
            SameCluster(a, b) <=> b \in Component(a)

\* a run of two loop iterations that returned a cluster of three or more
\* nodes beside another cluster
C1_Witness ==
    /\ Returned
    /\ iteration >= 2
    /\ \E r \in OutputRows : Cardinality(Component(r.node_id)) >= 3
    /\ \E a \in nodes_table, b \in nodes_table : ~SameCluster(a, b)

\* C2: in the returned output every node of the nodes table is the node_id
\* of exactly one row, no row is of another id, and no node is in two of
\* the stable tables that the output concatenates.
C2_Partition ==
    Returned =>
        /\ \A n \in nodes_table :
               Cardinality({i \in DOMAIN output : output[i].node_id = n}) = 1
        /\ {r.node_id : r \in OutputRows} = nodes_table
        /\ \A i \in DOMAIN converged_repr_tables, j \in DOMAIN converged_repr_tables :
               i # j =>
                   {r.node_id : r \in converged_repr_tables[i]}
                       \cap {r.node_id : r \in converged_repr_tables[j]} = {}

\* clusters were emitted in two different iterations
C2_Witness ==
    /\ Returned
    /\ Cardinality(EmittingIterations) >= 2

\* C3: the cluster_id of every output row is the minimum node_id among the
\* rows of its cluster, which is the minimum id reachable from the row's
\* node in the undirected filtered graph.
C3_MinimalClusterId ==
    Returned =>
        \A r \in OutputRows :
            /\ r.cluster_id =
                   MinOf({x.node_id : x \in {y \in OutputRows :
                                                 y.cluster_id = r.cluster_id}})
            /\ r.cluster_id = MinOf(Component(r.node_id))

\* a node whose cluster_id is three or more edges away was given it
C3_Witness ==
    /\ Returned
    /\ iteration >= 2
    /\ \E r \in OutputRows :
           /\ r.cluster_id # r.node_id
           /\ ~Adjacent(r.node_id, r.cluster_id)
           /\ ~\E m \in nodes_table :
                  Adjacent(r.node_id, m) /\ Adjacent(m, r.cluster_id)

\* C4: a node with no edge left after the threshold filter is returned as
\* a cluster of its own: its row has its own id as cluster_id and no other
\* row has that cluster_id.
C4_IsolatedNodeRetention ==
    Returned =>
        \A n \in nodes_table :
            (~\E m \in nodes_table : m # n /\ Adjacent(n, m)) =>
                /\ [cluster_id |-> n, node_id |-> n] \in OutputRows
                /\ \A r \in OutputRows :
                       (r.cluster_id = n \/ r.node_id = n) =>
                           r = [cluster_id |-> n, node_id |-> n]

\* a node all of whose edges were filtered out, beside a cluster of two
C4_Witness ==
    /\ Returned
    /\ \E n \in nodes_table :
           /\ \E e \in edges_table : e.node_id_l = n \/ e.node_id_r = n
           /\ ~\E m \in nodes_table : m # n /\ Adjacent(n, m)
    /\ \E r \in OutputRows : r.cluster_id # r.node_id

\* C5: once __splink__edges and the neighbours table are built, an input
\* edge is in them exactly when there is no threshold or its
\* match_probability is not strictly below the threshold.
C5_ThresholdFiltering ==
    /\ pc \notin {"call", "edges", "error"} =>
           \A e \in edges_table :
               [node_id_l |-> e.node_id_l, node_id_r |-> e.node_id_r] \in edges
                   <=> NotBelowThreshold(e)
    /\ pc \notin {"call", "edges", "neighbours", "error"} =>
           \A e \in edges_table :
               /\ [node_id |-> e.node_id_l, neighbour |-> e.node_id_r] \in neighbours
                      <=> NotBelowThreshold(e)
               /\ [node_id |-> e.node_id_r, neighbour |-> e.node_id_l] \in neighbours
                      <=> NotBelowThreshold(e)

\* edges below, at and above a given threshold were filtered
C5_Witness ==
    /\ pc = "representatives"
    /\ cc_threshold # None
    /\ \E e \in edges_table : ~NotBelowThreshold(e)
    /\ \E e \in edges_table : e.match_probability = cc_threshold
    /\ \E e \in edges_table :
           NotBelowThreshold(e) /\ e.match_probability # cc_threshold

\* C8: clustering the same nodes, edges and thresholds a second time
\* returns the same rows in the same order, whatever order the executor
\* held the rows in.
C8_Deterministic ==
    (Returned /\ run = 2) => output = first_output

\* the second of two runs that took two iterations and returned two clusters
C8_Witness ==
    /\ Returned
    /\ run = 2
    /\ iteration >= 2
    /\ Cardinality({r.cluster_id : r \in OutputRows}) >= 2

\* C9: the returned rows ascend by cluster_id and, within one cluster_id,
\* by node_id.
C9_OutputOrdering ==
    Returned =>
        \A i \in DOMAIN output, j \in DOMAIN output :
            i < j =>
                \/ output[i].cluster_id < output[j].cluster_id
                \/ /\ output[i].cluster_id = output[j].cluster_id
                   /\ output[i].node_id <= output[j].node_id

\* a cluster emitted in a later iteration has a smaller cluster_id than one
\* emitted before it
C9_Witness ==
    /\ Returned
    /\ \E i \in EmittingIterations, j \in EmittingIterations :
           /\ i < j
           /\ \E x \in converged_repr_tables[i], y \in converged_repr_tables[j] :
                  y.representative < x.representative

\* C10: a call that gives both thresholds ends in the error "Please specify
\* only one" with no pipeline submitted and no output, and no other call
\* ends in that error.
C10_MutualExclusion ==
    /\ (pc # "call" /\ threshold_match_weight # None
                    /\ threshold_match_probability # None) =>
           /\ pc = "error"
           /\ error = PleaseSpecifyOnlyOne
           /\ submitted = << >>
           /\ output = << >>
    /\ pc = "error" =>
           threshold_match_weight # None /\ threshold_match_probability # None

\* the call with both thresholds has raised
C10_Witness ==
    /\ pc = "error"
    /\ threshold_match_weight # None
    /\ threshold_match_probability # None
    /\ edges_table # {}

\* C6: the while loop ends: it goes round at most once more than there are
\* nodes, so it never reaches the iteration cap of the model, the only
\* place where a step of the program waits on anything but its turn; it
\* has been left only on a count of zero rows with rep_match true in the
\* thinned table and after at least one iteration, and it has gone round
\* again only on a count above zero.
C6_Termination ==
    /\ iteration <= Cardinality(nodes_table) + 1
    /\ iteration < IterationCap
    /\ pc = "done" =>
           /\ iteration >= 1
           /\ Cardinality({r \in prev_representatives_table :
                               r.rep_match = SqlTrue}) = 0
    /\ pc = "stable" =>
           \/ iteration = 1
           \/ Cardinality({r \in prev_representatives_table :
                               r.rep_match = SqlTrue}) > 0
    /\ (pc = "while" /\ iteration >= 1) =>
           root_rows_count = Cardinality({r \in prev_representatives_table :
                                              r.rep_match = SqlTrue})

\* the loop went round a second time because rows with rep_match true were
\* left, and then returned
C6_Witness ==
    /\ Returned
    /\ iteration >= 2
    /\ root_rows_count = 0

\* C7: with an edge that names an id absent from the nodes table, every
\* node of the nodes table is still in the returned output, and its
\* cluster_id is the node_id of a row of its cluster.
C7_AbsentEndpoints ==
    Returned =>
        \A n \in nodes_table :
            \E r \in OutputRows :
                /\ r.node_id = n
                /\ \E m \in OutputRows :
                       m.cluster_id = r.cluster_id /\ m.node_id = r.cluster_id

\* C11: clustering the same nodes and edges with a match-weight threshold
\* and then with the equivalent match-probability threshold returns the
\* same cluster_id and node_id columns, row for row.
C11_ThresholdEquivalence ==
    (Returned /\ run = 3) => output = first_output

\* the call with the equivalent probability returned; the threshold removed
\* an edge, kept an edge that scored exactly the threshold, and a cluster of
\* two or more nodes was returned
C11_Witness ==
    /\ Returned
    /\ run = 3
    /\ threshold_match_weight = None
    /\ \E e \in edges_table : ~NotBelowThreshold(e)
    /\ \E e \in edges_table : e.match_probability = cc_threshold
    /\ \E r \in OutputRows : r.cluster_id # r.node_id

\* the live tables that no query of the rest of the run reads: every
\* __splink__df_representatives_<i> table and exit-count table once its
\* iteration is over, the initial representatives once the loop has gone
\* round, a thinned table once a later one replaced it or the loop is left
SupersededLive ==
    { t \in database :
          \/ t[1] = "__splink__df_representatives_"
          \/ t[1] = "__splink__df_root_rows"
          \/ t[1] = "__splink__df_representatives" /\ iteration >= 1
          \/ t[1] = "representatives_thinned" /\ (t[2] < iteration \/ pc = "done") }

\* C16: between two iterations of the loop and after the run, no superseded
\* intermediate table (previous representatives, the representatives table
\* of a finished iteration, the last thinned table, the exit-count table) is
\* still live, so their number does not grow with the iterations.
C16_SupersededReleased ==
    pc \in {"while", "done"} => SupersededLive = {}

\* the link types with one pool of records
DedupeLinkTypes == { "dedupe_only", "link_and_dedupe" }

\* sample_size and proportion hold what lines 96-97 computed
DedupeSampleSizeComputed ==
    /\ linker_settings # None
    /\ linker_settings.link_type \in DedupeLinkTypes
    /\ \/ u_pc = "sample"
       \/ u_pc = "raised" /\ u_raised = ZeroDivisionError

\* C12: for dedupe_only and link_and_dedupe the computed sample size is the
\* r with r(r-1)/2 = max_pairs: exactly r when max_pairs = r(r-1)/2 for an
\* integer r >= 1, within one rounding step of the root otherwise, between
\* 141.9 and 142 for max_pairs = 10000; and the proportion is the sample
\* size divided by the number of rows of all frames.
C12_DedupeSampleSize ==
    DedupeSampleSizeComputed =>
        /\ \A r \in 1..(MaxPairs + 1) :
               2 * max_pairs = r * (r - 1) => FracEq(sample_size, Frac(r, 1))
        /\ sample_size[1] * (sample_size[1] - sample_size[2])
               <= 2 * max_pairs * sample_size[2] * sample_size[2]
        /\ (sample_size[1] + 1) * (sample_size[1] + 1 - sample_size[2])
               > 2 * max_pairs * sample_size[2] * sample_size[2]
        /\ max_pairs = 10000 =>
               /\ FracGE(sample_size, Frac(1419, 10))
               /\ FracGT(Frac(1420, 10), sample_size)
        /\ u_pc = "sample" =>
               FracEq(FracMul(proportion, Frac(SumSeq(frame_counts), 1)), sample_size)

\* link_and_dedupe of two or more frames with max_pairs = 6 = 4 * 3 / 2: four
\* rows are needed, a proportion below 1
C12_Witness ==
    /\ u_pc = "sample"
    /\ linker_settings.link_type = "link_and_dedupe"
    /\ Len(frame_counts) >= 2
    /\ max_pairs = 6
    /\ FracEq(sample_size, Frac(4, 1))
    /\ FracGT(Frac(1, 1), proportion)

\* the number of pairs of rows of two different frames: the sum of
\* n_i * n_j over the pairs of frames i < j
RECURSIVE PairwiseLinks(_)
PairwiseLinks(q) ==
    IF Len(q) <= 1 THEN 0
    ELSE q[1] * SumSeq(Tail(q)) + PairwiseLinks(Tail(q))

LinkOnlyCalled ==
    /\ linker_settings # None
    /\ linker_settings.link_type = "link_only"
    /\ \/ u_pc = "sample"
       \/ u_pc = "raised" /\ u_raised = ZeroDivisionError

\* C13: for link_only, with total_links the sum of n_i * n_j over the pairs
\* of frames i < j, the computed proportion squared times total_links is
\* max_pairs (within one rounding step of the square root), the sample size
\* is the proportion times the sum of the frame sizes, and the function
\* raises only when there is no pair of rows of two frames.
C13_LinkOnlySampleSize ==
    LinkOnlyCalled =>
        /\ u_pc = "raised" <=> PairwiseLinks(frame_counts) = 0
        /\ u_pc = "sample" =>
               /\ proportion[1] * proportion[1] * PairwiseLinks(frame_counts)
                      <= max_pairs * proportion[2] * proportion[2]
               /\ (proportion[1] + 1) * (proportion[1] + 1) * PairwiseLinks(frame_counts)
                      > max_pairs * proportion[2] * proportion[2]
               /\ max_pairs = PairwiseLinks(frame_counts) =>
                      FracEq(proportion, Frac(1, 1))
               /\ FracEq(sample_size,
                         FracMul(proportion, Frac(SumSeq(frame_counts), 1)))

\* three frames of different sizes and a budget below the number of links
C13_Witness ==
    /\ LinkOnlyCalled
    /\ u_pc = "sample"
    /\ Len(frame_counts) = 3
    /\ frame_counts[1] # frame_counts[2]
    /\ max_pairs >= 1
    /\ max_pairs < PairwiseLinks(frame_counts)
    /\ FracGT(proportion, Frac(0, 1))
    /\ FracGT(Frac(1, 1), proportion)

\* C14: whatever the link type, max_pairs and row counts, the step that
\* draws the sample is given a proportion of at most 1 and a sample size of
\* at most the number of rows of all frames: a computed proportion above 1
\* is passed as exactly 1, a computed sample size above the number of rows
\* as exactly that number, and anything else as computed.
C14_Clamping ==
    [][ (u_pc = "sample" /\ u_pc' = "m_u_counts") =>
            /\ FracGE(Frac(1, 1), random_sample'.proportion)
            /\ FracGE(Frac(SumSeq(frame_counts), 1), random_sample'.sample_size)
            /\ IF FracGT(proportion, Frac(1, 1))
               THEN FracEq(random_sample'.proportion, Frac(1, 1))
               ELSE FracEq(random_sample'.proportion, proportion)
            /\ IF FracGT(sample_size, Frac(SumSeq(frame_counts), 1))
               THEN FracEq(random_sample'.sample_size, Frac(SumSeq(frame_counts), 1))
               ELSE FracEq(random_sample'.sample_size, sample_size)
      ]_vars

\* a link_only sample was drawn after both caps cut the computed values
C14_Witness ==
    /\ u_pc = "m_u_counts"
    /\ linker_settings.link_type = "link_only"
    /\ FracGT(ProportionSampleSizeLinkOnly(frame_counts, max_pairs).sample_size,
              Frac(SumSeq(frame_counts), 1))
    /\ FracEq(random_sample.proportion, Frac(1, 1))
    /\ FracEq(random_sample.sample_size, Frac(SumSeq(frame_counts), 1))

\* the level `after` is the level `before` with one u probability of this
\* training appended to its trained u probabilities and nothing else changed
TrainedUAppended(before, after) ==
    /\ after.is_null_level = before.is_null_level
    /\ after.m_probability = before.m_probability
    /\ after.tf_adjustment_column = before.tf_adjustment_column
    /\ Len(after.trained_u_probabilities) = Len(before.trained_u_probabilities) + 1
    /\ SubSeq(after.trained_u_probabilities, 1, Len(before.trained_u_probabilities))
           = before.trained_u_probabilities
    /\ after.trained_u_probabilities[Len(after.trained_u_probabilities)].description
           = TrainingDescription

\* C15: until estimate_u_values appends the trained u probabilities, and
\* when it raises, the caller's settings object is as it was at the call;
\* when it has returned, the caller's settings differ from then only in
\* that every non-null comparison level holds one more trained u
\* probability: null levels, m probabilities, the retain-column flags, the
\* term-frequency adjustment columns and the blocking rules are as before.
C15_OnlySideEffect ==
    /\ u_pc \in {"call", "count", "sample", "m_u_counts", "append", "raised"} =>
           heap[LinkerRef] = linker_settings
    /\ u_pc = "returned" =>
           LET after == heap[LinkerRef]
           IN  /\ after.link_type = linker_settings.link_type
               /\ after.retain_matching_columns = linker_settings.retain_matching_columns
               /\ after.retain_intermediate_calculation_columns
                      = linker_settings.retain_intermediate_calculation_columns
               /\ after.blocking_rules_to_generate_predictions
                      = linker_settings.blocking_rules_to_generate_predictions
               /\ DOMAIN after.comparisons = DOMAIN linker_settings.comparisons
               /\ \A c \in DOMAIN after.comparisons :
                      LET ca == after.comparisons[c]
                          cb == linker_settings.comparisons[c]
                      IN  /\ ca.output_column_name = cb.output_column_name
                          /\ DOMAIN ca.comparison_levels = DOMAIN cb.comparison_levels
                          /\ \A l \in DOMAIN ca.comparison_levels :
                                 IF cb.comparison_levels[l].is_null_level
                                 THEN ca.comparison_levels[l] = cb.comparison_levels[l]
                                 ELSE TrainedUAppended(cb.comparison_levels[l],
                                                       ca.comparison_levels[l])

\* the call returned after it changed the flags, the term-frequency columns
\* and the blocking rules of the training settings, for two comparisons one
\* of which has a null level and one an earlier trained u probability
C15_Witness ==
    /\ u_pc = "returned"
    /\ Len(linker_settings.comparisons) = 2
    /\ settings_obj # LinkerRef
    /\ heap[settings_obj].blocking_rules_to_generate_predictions
           = << BlockingRuleToObj("1=1", CpuCount) >>
    /\ ~heap[settings_obj].retain_matching_columns
    /\ heap[settings_obj].comparisons[1].comparison_levels[2].tf_adjustment_column = None
    /\ linker_settings.comparisons[1].comparison_levels[2].tf_adjustment_column # None
    /\ Len(heap[LinkerRef].comparisons[2].comparison_levels[1].trained_u_probabilities) = 2

\* the sum of the u probabilities of a set of records
RECURSIVE SumOfProbabilities(_)
SumOfProbabilities(records) ==
    IF records = {} THEN Frac(0, 1)
    ELSE LET r == CHOOSE x \in records : TRUE
         IN  FracAdd(r.u_probability, SumOfProbabilities(records \ {r}))

\* the records of param_records for the c-th comparison
RecordsOf(c) ==
    { r \in param_records :
          r.output_column_name = linker_settings.comparisons[c].output_column_name }

\* the sampled pairs in the non-null levels of the c-th comparison
NonNullPairs(c) ==
    SumSeq([l \in DOMAIN comparison_vector_counts[c] |->
               IF linker_settings.comparisons[c].comparison_levels[l].is_null_level
               THEN 0 ELSE comparison_vector_counts[c][l]])

\* C20: once the proportions are computed, every comparison has one record
\* per non-null level and none for a null level; the probability of a level
\* is the count of its pairs divided by the count of the pairs in the
\* non-null levels of that comparison, so the probabilities of a comparison
\* sum to 1, and counts of 3 and 1 give 3/4 and 1/4.
C20_EMNormalisation ==
    u_pc \in {"append", "returned"} =>
        \A c \in DOMAIN linker_settings.comparisons :
            /\ { r.comparison_vector_value : r \in RecordsOf(c) }
                   = { l \in DOMAIN linker_settings.comparisons[c].comparison_levels :
                           ~linker_settings.comparisons[c].comparison_levels[l].is_null_level }
            /\ \A r \in RecordsOf(c), q \in RecordsOf(c) :
                   r.comparison_vector_value = q.comparison_vector_value => r = q
            /\ \A r \in RecordsOf(c) :
                   FracEq(r.u_probability,
                          Frac(comparison_vector_counts[c][r.comparison_vector_value],
                               NonNullPairs(c)))
            /\ FracEq(SumOfProbabilities(RecordsOf(c)), Frac(1, 1))
            /\ \A r \in RecordsOf(c), q \in RecordsOf(c) :
                   (/\ Cardinality(RecordsOf(c)) = 2
                    /\ comparison_vector_counts[c][r.comparison_vector_value] = 3
                    /\ comparison_vector_counts[c][q.comparison_vector_value] = 1) =>
                       /\ FracEq(r.u_probability, Frac(3, 4))
                       /\ FracEq(q.u_probability, Frac(1, 4))

\* a comparison with pairs in its null level and 3 and 1 pairs in its two
\* other levels was normalised, beside a second comparison
C20_Witness ==
    /\ u_pc = "append"
    /\ Len(linker_settings.comparisons) = 2
    /\ comparison_vector_counts[1] = << 2, 3, 1 >>
    /\ \E r \in RecordsOf(1) :
           r.comparison_vector_value = 2 /\ FracEq(r.u_probability, Frac(3, 4))

\* C17: when a pipeline submission of solve_connected_components or of
\* estimate_u_values has failed, the caller has the error, no output and
\* settings as they were, and no table that the run materialised is live.
C17_ReleaseOnError ==
    /\ pc = "raised" =>
           /\ error = ExecutorError
           /\ output = << >>
           /\ database = {}
    /\ (u_pc = "raised" /\ u_raised = ExecutorError) =>
           /\ heap[LinkerRef] = linker_settings
           /\ database = {}

\* the number of non-null levels among the first i levels
NonNullRank(i) == Cardinality({ j \in 1..i : ~comparison_levels[j] })

\* the value of the stored list that belongs to the i-th level
SuppliedFor(stored, i) ==
    IF stored = None THEN None ELSE stored[NonNullRank(i)]

\* what get_configured_comparison_levels returned agrees with the stored lists
ConfiguredFromStored ==
    configured_levels # None =>
        /\ DOMAIN configured_levels.levels = DOMAIN comparison_levels
        /\ \A i \in DOMAIN comparison_levels :
               /\ configured_levels.levels[i].is_null_level = comparison_levels[i]
               /\ IF comparison_levels[i]
                  THEN /\ configured_levels.levels[i].m_probability = None
                       /\ configured_levels.levels[i].u_probability = None
                  ELSE /\ configured_levels.levels[i].m_probability
                              = SuppliedFor(m_probabilities, i)
                       /\ configured_levels.levels[i].u_probability
                              = SuppliedFor(u_probabilities, i)
        /\ configured_levels.m_values = << >>
        /\ configured_levels.u_values = << >>
        /\ m_probabilities # None =>
               Len(m_probabilities) = NonNullRank(Len(comparison_levels))
        /\ u_probabilities # None =>
               Len(u_probabilities) = NonNullRank(Len(comparison_levels))

\* C18: get_configured_comparison_levels never raises; it gives the i-th
\* stored m probability, and the i-th stored u probability, to the i-th
\* non-null level in level order and None to every null level, leaves no
\* stored value unused, and leaves the stored lists as they were, so a
\* second call returns the same levels.
C18_ConfiguredSkipNull ==
    /\ [](ConfiguredFromStored)
    /\ [][ last_call'.name = "get_configured_comparison_levels" =>
               /\ m_probabilities' = m_probabilities
               /\ u_probabilities' = u_probabilities
               /\ creator_raised' = NoError
               /\ (last_call.name = "get_configured_comparison_levels" /\ creator_calls' # creator_calls) =>
                      configured_levels' = configured_levels
         ]_vars

\* a second call in a row returned the levels of a creator with a null level
\* between two others, configured with m and with u probabilities
C18_Witness ==
    /\ last_call.name = "get_configured_comparison_levels"
    /\ creator_calls = 3
    /\ comparison_levels = << FALSE, TRUE, FALSE >>
    /\ configured_levels # None
    /\ configured_levels.levels[1].m_probability = Frac(9, 10)
    /\ configured_levels.levels[3].m_probability = Frac(8, 100)
    /\ configured_levels.levels[1].u_probability = Frac(1, 100)
    /\ configured_levels.levels[3].u_probability = Frac(5, 100)

\* the number of levels of the creator that are not the null level
NonNullLevelCount == NonNullRank(Len(comparison_levels))

\* what an assignment of `supplied` to a field that held `before` must leave in
\* `after`, and what it must raise
LengthValidated(supplied, before, after, raised) ==
    supplied # << >> =>
        IF Len(supplied) # NonNullLevelCount
        THEN raised = ValueError /\ after = before
        ELSE raised = NoError /\ after = supplied

\* C19: assigning to m_probabilities, or to u_probabilities, a non-empty list
\* whose length is not the number of non-null levels raises ValueError and
\* leaves the list stored for that field as it was; a list of exactly that
\* length is stored.
C19_LengthValidation ==
    [][ /\ last_call'.name = "m_probabilities" =>
               /\ LengthValidated(last_call'.m, m_probabilities, m_probabilities',
                                  creator_raised')
               /\ u_probabilities' = u_probabilities
        /\ last_call'.name = "u_probabilities" =>
               /\ LengthValidated(last_call'.u, u_probabilities, u_probabilities',
                                  creator_raised')
               /\ m_probabilities' = m_probabilities
      ]_vars

\* a list as long as all the levels, the null level counted, was refused for a
\* creator that already held a list for its two non-null levels
C19_Witness ==
    /\ last_call.name = "m_probabilities"
    /\ comparison_levels = << FALSE, TRUE, FALSE >>
    /\ last_call.m = << Frac(1, 100), Frac(5, 100), Frac(94, 100) >>
    /\ creator_raised = ValueError
    /\ m_probabilities = << Frac(9, 10), Frac(8, 100) >>

\* the m probability of the exact match level on one column of the comparison
\* made
ExactMatchMProbability(col_name) ==
    LET i == CHOOSE i \in DOMAIN forename_surname_levels :
                 /\ forename_surname_levels[i].level = "exact_match"
                 /\ forename_surname_levels[i].col_name = col_name
    IN  forename_surname_levels[i].m_probability

\* C21: in the comparison made, the m probability of the surname exact match
\* level is the argument m_probability_exact_match_surname if it was given,
\* and the m probability of the forename exact match level is the argument
\* m_probability_exact_match_forename if it was given; the surname level does
\* not get the forename's argument when its own was not given.
C21_ExactMatchMProbabilities ==
    forename_surname_levels # None =>
        /\ forename_surname_arguments.m_probability_exact_match_surname # None =>
               ExactMatchMProbability(SurnameColName)
                   = forename_surname_arguments.m_probability_exact_match_surname
        /\ forename_surname_arguments.m_probability_exact_match_forename # None =>
               ExactMatchMProbability(ForenameColName)
                   = forename_surname_arguments.m_probability_exact_match_forename
        /\ forename_surname_arguments.m_probability_exact_match_surname = None =>
               ExactMatchMProbability(SurnameColName) = None

\* the node ids of a representatives table
NodesOf(T) == { r.node_id : r \in T }

\* the sum of the representative column of a table
RECURSIVE RepresentativeSum(_)
RepresentativeSum(T) ==
    IF T = {} THEN 0
    ELSE LET r == CHOOSE x \in T : TRUE
         IN  r.representative + RepresentativeSum(T \ {r})

\* the step that ends an iteration of the loop: the thinned table of the
\* iteration takes the place of the table the iteration started from
IterationEnds == pc = "thin" /\ pc' = "exit"

\* C22 as the specification states it: in every iteration either the thinned
\* table holds strictly fewer nodes than the table the iteration started
\* from, or it holds strictly fewer rows with rep_match true.
C22_MonotoneMeasure ==
    [][ IterationEnds =>
            \/ /\ NodesOf(prev_representatives_table')
                      \subseteq NodesOf(prev_representatives_table)
               /\ NodesOf(prev_representatives_table')
                      # NodesOf(prev_representatives_table)
            \/ AssessExitConditionQuery(prev_representatives_table')
                   < AssessExitConditionQuery(prev_representatives_table)
      ]_vars

\* C22 amended: in every iteration either the thinned table holds strictly
\* fewer nodes than the table the iteration started from, or it holds no row
\* with rep_match true (the loop is left), or the sum of its representatives
\* is strictly smaller than the sum of the table the iteration started from.
C22_MonotoneMeasureAmended ==
    [][ IterationEnds =>
            \/ /\ NodesOf(prev_representatives_table')
                      \subseteq NodesOf(prev_representatives_table)
               /\ NodesOf(prev_representatives_table')
                      # NodesOf(prev_representatives_table)
            \/ AssessExitConditionQuery(prev_representatives_table') = 0
            \/ RepresentativeSum(prev_representatives_table')
                   < RepresentativeSum(prev_representatives_table)
      ]_vars

\* the table the first iteration starts from, as line 365 computes it
FirstRepresentatives ==
    LET reprT == InitialRepresentativesQuery(neighbours)
    IN  RepresentativesFirstIterQuery(NeighboursFirstIterQuery(neighbours, reprT), reprT)

\* the first iteration has ended with every node it started from still in
\* the thinned table and no fewer rows with rep_match true than it started
\* from, and the loop goes on
C22_Witness ==
    /\ pc = "exit"
    /\ iteration = 1
    /\ NodesOf(prev_representatives_table) = NodesOf(FirstRepresentatives)
    /\ AssessExitConditionQuery(prev_representatives_table)
           >= AssessExitConditionQuery(FirstRepresentatives)
    /\ AssessExitConditionQuery(prev_representatives_table) > 0

\* the node ids that converged_repr_tables[i] holds under representative c
StableGroup(i, c) ==
    { r.node_id : r \in { x \in converged_repr_tables[i] : x.representative = c } }

\* the rows of the stable table of iteration i are complete components under
\* their minimum
StableGroupsAreComponents(i) ==
    \A r \in converged_repr_tables[i] :
        /\ StableGroup(i, r.representative) = Component(r.node_id)
        /\ r.representative = MinOf(Component(r.node_id))

\* C23: every group of every stable table is exactly one connected component
\* of the filtered graph and its representative is the least id of that
\* component; a node of the stable table of one iteration is in no stable
\* table of another iteration, in no representatives table of a later
\* iteration and in no thinned table from its own iteration on.
C23_StabilitySoundness ==
    \A i \in DOMAIN converged_repr_tables :
        /\ StableGroupsAreComponents(i)
        /\ \A j \in DOMAIN converged_repr_tables :
               i # j => NodesOf(converged_repr_tables[i])
                            \cap NodesOf(converged_repr_tables[j]) = {}
        /\ i < iteration =>
               NodesOf(converged_repr_tables[i]) \cap NodesOf(representatives) = {}
        /\ (i < iteration \/ pc \in {"exit", "while", "done"}) =>
               NodesOf(converged_repr_tables[i])
                   \cap NodesOf(prev_representatives_table) = {}

\* a component was emitted in the first iteration and the loop went on to
\* emit a component of two nodes or more in a later one
C23_Witness ==
    /\ Returned
    /\ Len(converged_repr_tables) >= 2
    /\ converged_repr_tables[1] # {}
    /\ \E r \in converged_repr_tables[Len(converged_repr_tables)] :
           r.node_id # r.representative

\* the update without the rep_match filter: for every node of the previous
\* table, the least previous representative among all its neighbours
UnfilteredUpdate(neighboursT, prevT) ==
    { [node_id |-> p.node_id,
       representative |->
           SqlMin({ x.representative :
                      x \in { y \in prevT :
                                 \E nb \in neighboursT :
                                     /\ nb.node_id = p.node_id
                                     /\ nb.neighbour = y.node_id } })] :
          p \in prevT }

\* C24: the representatives table of every loop iteration gives each
\* remaining node the representative that the update over all its
\* neighbours, without looking at rep_match, gives it.
C24_RepMatchPureOptimisation ==
    pc \in {"stable", "thin"} =>
        { [node_id |-> r.node_id, representative |-> r.representative] :
              r \in representatives }
            = UnfilteredUpdate(neighbours, prev_representatives_table)

\* an iteration has updated a table in which the filter left out a
\* neighbour: some node has another node as neighbour whose rep_match was
\* false, and some representative changed in the iteration
C24_Witness ==
    /\ pc = "stable"
    /\ \E nb \in neighbours :
           /\ nb.node_id # nb.neighbour
           /\ \E p \in prev_representatives_table :
                  p.node_id = nb.neighbour /\ p.rep_match = SqlFalse
    /\ \E r \in representatives : r.rep_match = SqlTrue

\* estimate_u_values has got past line 146: the sampled pairs were blocked
SampleBlocked ==
    \/ u_pc \in {"append", "returned"}
    \/ u_pc = "raised" /\ u_raised = EstimationError

\* C25: once the sampled pairs were blocked, the blocking rules of the
\* training settings are not the configured ones; they are the one rule
\* "1=1" salted over cpu_count partitions when the dialect is duckdb and
\* max_pairs is above 10000, and no rule at all otherwise, max_pairs of
\* exactly 10000 included.
C25_BlockingStrategy ==
    SampleBlocked =>
        LET rules == heap[settings_obj].blocking_rules_to_generate_predictions
        IN  /\ rules # linker_settings.blocking_rules_to_generate_predictions
            /\ (sql_dialect = "duckdb" /\ max_pairs > 10000) =>
                   /\ Len(rules) = 1
                   /\ rules[1].blocking_rule = "1=1"
                   /\ rules[1].salting_partitions = CpuCount
            /\ (sql_dialect # "duckdb" \/ max_pairs <= 10000) => rules = << >>

\* the pairs of a duckdb sample were blocked with max_pairs of exactly 10000
C25_Witness ==
    /\ SampleBlocked
    /\ sql_dialect = "duckdb"
    /\ max_pairs = 10000
    /\ heap[settings_obj].blocking_rules_to_generate_predictions = << >>
    /\ linker_settings.blocking_rules_to_generate_predictions # << >>

\* the while loop was left: its condition was read as false after an iteration
LoopLeft ==
    \/ pc = "done"
    \/ pc = "while" /\ iteration >= 1 /\ root_rows_count = 0

\* the node ids of all the stable tables
EmittedNodes ==
    UNION { NodesOf(converged_repr_tables[i]) : i \in DOMAIN converged_repr_tables }

\* C26: with every edge endpoint in the nodes table, when the loop is left
\* the thinned table holds no row, and every node of the nodes table is in
\* one of the stable tables the output is made of.
C26_NothingLeftBehind ==
    LoopLeft =>
        /\ prev_representatives_table = {}
        /\ EmittedNodes = nodes_table

\* the loop was left after two iterations or more, the last of which
\* emitted a component of more than one node
C26_Witness ==
    /\ pc = "while"
    /\ root_rows_count = 0
    /\ iteration >= 2
    /\ Cardinality(NodesOf(representatives_stable)) >= 2
    /\ prev_representatives_table = {}

\* every row of a representatives table has a representative that is at
\* most the node and is a node of the node's connected component
RepresentativesWithinComponent(T) ==
    \A r \in T :
        /\ r.representative <= r.node_id
        /\ r.representative \in Component(r.node_id)

\* no node has a larger representative in table T than it has in table P
NeverIncreased(T, P) ==
    \A r \in T : \A p \in P :
        p.node_id = r.node_id => r.representative <= p.representative

\* C27: in the initial representatives, in the table the loop starts from
\* and in the table of every iteration, every node's representative is at
\* most the node itself and is a node of its connected component; and it is
\* never larger than the representative the node had in the table before.
C27_RepresentativeInvariant ==
    /\ [](/\ RepresentativesWithinComponent(InitialRepresentativesQuery(neighbours))
          /\ RepresentativesWithinComponent(representatives)
          /\ RepresentativesWithinComponent(prev_representatives_table)
          /\ NeverIncreased(FirstRepresentatives, InitialRepresentativesQuery(neighbours)))
    /\ [][ (pc = "while" /\ pc' = "stable") =>
               NeverIncreased(representatives', prev_representatives_table)
         ]_vars

\* the second iteration or a later one gave a node a smaller representative,
\* which is not the node itself
C27_Witness ==
    /\ pc = "stable"
    /\ iteration >= 2
    /\ \E r \in representatives : \E p \in prev_representatives_table :
           /\ p.node_id = r.node_id
           /\ r.representative < p.representative
           /\ p.representative < p.node_id

\* a pipeline is submitted in the step
Submission == Len(submitted') = Len(submitted) + 1

\* the tables materialised by the submissions that have completed
Materialised == { submitted[i] : i \in DOMAIN submitted }

\* C28: every submission of solve_connected_components names only tables
\* that an earlier submission materialised and that are still in the
\* database; the table that prev_representatives_table names is in the
\* database when it is dropped, so it is dropped once, and it is dropped
\* after the submissions of the iteration that name it; a dropped table is
\* never in the database again.
C28_NoUseAfterRelease ==
    [][ /\ Submission =>
               /\ TablesReferenced \subseteq Materialised
               /\ TablesReferenced \subseteq database
        /\ (pc = "thin" /\ pc' = "exit") =>
               /\ PhysicalNameOfPrev(iteration) \in database
               /\ PhysicalNameOfPrev(iteration) \notin database'
               /\ PhysicalNameOfPrev(iteration) \notin TablesReferenced
        /\ Submission =>
               (Materialised \ database) \cap database' = {}
      ]_vars

\* the second iteration has dropped the thinned table of the first, after
\* it was read, and is about to read its own thinned table
C28_Witness ==
    /\ pc = "exit"
    /\ iteration = 2
    /\ << "representatives_thinned", 1 >> \in Materialised \ database
    /\ << "__splink__df_representatives", 0 >> \in Materialised \ database
    /\ << "representatives_thinned", 2 >> \in database

\* C29: a call of configure that raises ValueError leaves the stored
\* m_probabilities and the stored u_probabilities as they were before it.
C29_ConfigureAtomic ==
    [][ (last_call'.name = "configure" /\ creator_raised' = ValueError) =>
            /\ m_probabilities' = m_probabilities
            /\ u_probabilities' = u_probabilities
      ]_vars

\* the inputs that leave nothing to divide by: no row at all for a
\* deduplication, fewer than two datasets with rows for a link_only job
DegenerateSample ==
    IF linker_settings.link_type \in DedupeLinkTypes
    THEN \A i \in DOMAIN frame_counts : frame_counts[i] = 0
    ELSE Cardinality({ i \in DOMAIN frame_counts : frame_counts[i] > 0 }) < 2

\* C30: on such inputs estimate_u_values is left by a ZeroDivisionError once
\* the rows are counted, and on no other inputs; then no sample was drawn,
\* the count table is dropped and no other table is in the database, and
\* the caller's settings, its comparison levels with their trained u
\* probabilities included, are as they were given.
C30_DegenerateSampling ==
    /\ (u_pc \notin {"idle", "call", "count"} /\ DegenerateSample) =>
           u_pc = "raised" /\ u_raised = ZeroDivisionError
    /\ (u_pc = "raised" /\ u_raised = ZeroDivisionError) =>
           /\ DegenerateSample
           /\ random_sample = None
           /\ param_records = {}
           /\ database = {}
           /\ heap[LinkerRef] = linker_settings

\* a link_only job over a single dataset with rows was left by the error
C30_Witness ==
    /\ u_pc = "raised"
    /\ u_raised = ZeroDivisionError
    /\ linker_settings.link_type = "link_only"
    /\ Len(frame_counts) = 1
    /\ frame_counts[1] > 1
    /\ max_pairs > 0
    /\ settings_obj # LinkerRef

====
